---- MODULE Spec2Model ----
(***************************************************************************)
(* Model of the AOE-Tools release pipeline.                                *)
(*                                                                         *)
(*   Spec          uploader: ReleaseWorkflow.run against the asset         *)
(*                 providers and the index repository                      *)
(*                 (src/uploader/core/workflow.py, src/uploader/providers) *)
(*   SpecDownload  launcher: NetworkManager.download_file_with_fallback    *)
(*                 (src/launcher/core/network.py)                          *)
(*   SpecFetch     launcher: NetworkManager.fetch_all_release_info and     *)
(*                 find_latest_version (src/launcher/core/network.py)      *)
(*   SpecBackup    launcher: BackupManager (src/launcher/core/backup.py)   *)
(*   SpecExtract   launcher: NetworkManager.extract_archive                *)
(*                 (src/launcher/core/network.py)                          *)
(*   SpecGit       uploader: GitHubGitProvider and git_retry               *)
(*                 (src/uploader/providers/github_git.py)                  *)
(*   SpecInstall   launcher: App._start_installation with the backup and   *)
(*                 the download it calls (src/launcher/gui/main_window.py) *)
(*   SpecGui       launcher: the buttons that start install and restore    *)
(*                 workers (src/launcher/gui/main_window.py)               *)
(*   SpecManage    uploader: the Manage Releases tab                       *)
(*                 (src/uploader/gui/main_window.py)                       *)
(*   SpecRelease   uploader: concurrent GitHubReleaseProvider.upload_asset *)
(*                 calls (src/uploader/providers/github_release.py)        *)
(***************************************************************************)
EXTENDS Integers, Sequences, FiniteSets, TLC

VARIABLES
    index,          \* versions.json of the index repository (remote state)
    w_pc,           \* position of ReleaseWorkflow.run
    w_version,      \* self.version
    w_profiler,     \* self.profiler
    w_providers,    \* self.asset_providers (names, in list order)
    w_commitParams, \* parameters index_provider.commit_manifest_file declares
    w_tasks,        \* futures not yet completed: <<provider, file>>
    w_done,         \* futures completed and collected by as_completed
    download_urls,  \* run's local dict: set of <<provider, url>>
    manifest_urls,  \* run's local dict: set of <<provider, url>>
    manifest_index_url, \* result of commit_manifest_file
    current_index,  \* list returned by get_index_content
    tempDir,        \* the temporary working directory exists
    w_error,        \* exception that leaves run ("none" when it returns)
    log,            \* status messages and provider calls of the current run
    indexAtStart,   \* index when the current run started
    d_urls,         \* download_file_with_fallback: urls argument (keys in dict order)
    d_pc,           \* position of download_file_with_fallback
    d_i,            \* index into sorted_urls
    d_attempt,      \* attempt counter of the current provider
    d_tries,        \* attempts made so far: <<provider, outcome>>
    d_tempFile,     \* the NamedTemporaryFile still exists
    d_result,       \* "none" | "path" | "None" | name of the escaping exception
    d_known,        \* the last response carried a content-length
    d_progress,     \* values the last attempt passed to progress_callback
    d_file,         \* content of destination: chunks as <<attempt, number>>
    d_last,         \* the last value this call passed to progress_callback
    d_decreased,    \* a value passed in this call was below the one before it
    f_versions,     \* fetch_all_release_info: list returned by fetch_versions
    f_pc,           \* position of fetch_all_release_info
    f_pending,      \* futures not yet completed (positions in f_versions)
    f_results,      \* results list, in completion order: <<position, release>>
    f_ok,           \* positions whose manifest was fetched and parsed
    f_releases,     \* the returned list
    f_latest,       \* find_latest_version: position returned, 0 for None, -1 not called
    tarFilter,      \* tarfile's default extraction filter of the running Python
    fs,             \* files below the game directory (paths as component tuples)
    backups,        \* launcher_backups: name -> archive and sidecar
    now,            \* datetime.now(), in seconds
    b_op,           \* BackupManager operation last started
    b_pc,           \* its position
    b_name,         \* backup_name
    b_paths,        \* create_backup: arcnames of file_paths
    b_total,        \* total_files
    b_i,            \* files added / members extracted so far
    b_last,         \* last_progress, as <<numerator, denominator>>
    b_progress,     \* values passed to progress_callback
    b_written,      \* paths restore_backup has written
    b_error,        \* exception raised to the caller ("none" when it returned)
    x_pc,           \* extract_archive: position
    x_members,      \* member names of the archive being extracted
    x_total,        \* len(manifest.files)
    x_i,            \* members extracted so far
    x_written,      \* paths extract_archive has written
    x_progress,     \* values passed to progress_callback
    x_result,       \* "none" while running, then "returned" or "raised"
    x_error,        \* the error extract_archive logged
    g_remote,       \* origin: the tree at the tip of the branch
    g_rev,          \* origin: pushes the branch has received
    g_local,        \* the clone: the tree at its tip (and in its working directory)
    g_base,         \* the clone: versions.json at the last commit shared with origin
    g_baseRev,      \* the clone: g_rev when it last pulled or pushed
    g_ahead,        \* the clone: commits origin does not have
    g_dir,          \* the clone: the directory manifests exists
    g_op,           \* GitHubGitProvider method last called
    g_index,        \* its list argument
    g_manifests,    \* its manifests_to_update or manifest argument
    g_pc,           \* its position
    g_attempt,      \* git_retry: attempt
    g_calls,        \* git_retry: times func was invoked by this call
    g_sleeps,       \* git_retry: times time.sleep(delay) was called by this call
    g_made,         \* commits this call created in the clone
    g_pushed,       \* commits the pushes of this call added to origin
    g_result,       \* "none" while running, "returned", or the exception raised
    g_returned,     \* the list get_index_content returned
    g_startRev,     \* g_rev when the call started
    i_pc,           \* App._start_installation: position
    i_corrupt,      \* the downloaded file's hash is not the release's archive_sha256
    i_verified,     \* what verify_sha256 returned ("none": it was not called)
    i_extracting,   \* extraction into bin has started
    i_marker,       \* bin/version.json was written by the flow
    i_status,       \* the status label
    i_error,        \* the exception the flow caught ("none": none)
    u_action,       \* launcher window: action_button is enabled
    u_installing,   \* install worker threads running
    u_window,       \* a BackupWindow is open and holds the grab
    u_buttons,      \* its Restore and Delete buttons are enabled
    u_restoring,    \* running restore workers: <<backup, its window still exists>>
    u_queue,        \* gui_queue: callbacks the workers queued
    m_pc,           \* uploader release management: "idle" | "shown" | "saved"
    m_index,        \* versions.json as _fetch_releases_thread read it
    m_rows,         \* self.release_widgets
    m_edited,       \* a checkbox was clicked since the rows were built
    m_saved,        \* updated_versions_content passed to save_all_changes
    m_updates,      \* manifests_to_update passed to save_all_changes
    p_pc,           \* GitHubReleaseProvider.upload_asset: position of each call
    p_err,          \* the exception each call raised ("none": none)
    p_lock,         \* holder of self._release_lock ("free": nobody)
    p_commits,      \* the repository has a commit
    p_tag,          \* the tag v<version> exists
    p_release,      \* the release of the tag exists
    p_made,         \* times the tag and the release were created by the calls
    p_assets        \* files uploaded to the release

wvars == <<index, w_pc, w_version, w_profiler, w_providers, w_commitParams,
           w_tasks, w_done, download_urls, manifest_urls, manifest_index_url,
           current_index, tempDir, w_error, log, indexAtStart>>
dvars == <<d_urls, d_pc, d_i, d_attempt, d_tries, d_tempFile, d_result, d_known,
           d_progress, d_file, d_last, d_decreased>>
fvars == <<f_versions, f_pc, f_pending, f_results, f_ok, f_releases, f_latest>>
bstate == <<backups, now, b_op, b_pc, b_name, b_paths, b_total, b_i, b_last,
            b_progress, b_written, b_error>>
bvars == <<fs, backups, now, b_op, b_pc, b_name, b_paths, b_total, b_i, b_last,
           b_progress, b_written, b_error>>
xvars == <<tarFilter, x_pc, x_members, x_total, x_i, x_written, x_progress,
           x_result, x_error>>
gvars == <<g_remote, g_rev, g_local, g_base, g_baseRev, g_ahead, g_dir, g_op,
           g_index, g_manifests, g_pc, g_attempt, g_calls, g_sleeps, g_made,
           g_pushed, g_result, g_returned, g_startRev>>
\* the components added to the model after the launcher
ivars == <<i_pc, i_corrupt, i_verified, i_extracting, i_marker, i_status, i_error>>
uvars == <<u_action, u_installing, u_window, u_buttons, u_restoring, u_queue>>
\* the components added last
mvars == <<m_pc, m_index, m_rows, m_edited, m_saved, m_updates>>
pvars == <<p_pc, p_err, p_lock, p_commits, p_tag, p_release, p_made, p_assets>>
tvars == <<uvars, mvars, pvars>>
rvars == <<gvars, ivars, tvars>>
\* the launcher components besides the download, and the later ones
lvars == <<fvars, bvars, xvars, rvars>>
vars  == <<wvars, dvars, lvars>>

----------------------------------------------------------------------------
(* Bounds *)
MaxIndexLen == 3    \* runs start only while the index is shorter than this
MaxMirrors  == 2    \* providers besides "GitHub Git" in a urls map
MaxFetch    == 3    \* entries of the index fetch_versions returns
MaxTime     == 2    \* seconds the clock can show
MaxFiles    == 2    \* files a release manifest lists
MaxRev      == 2    \* pushes the index repository receives
MaxAhead    == 2    \* provider calls start only with fewer unpushed commits
BodyChunks  == 3    \* chunks iter_content delivers for a whole body
MaxWorkers  == 2    \* restore workers started while others still run
MaxQueue    == 2    \* callbacks waiting in gui_queue

----------------------------------------------------------------------------
(* Uploader: providers *)

\* version strings the operator may type
Versions == {"1.0", "1.1"}

\* get_name() of the asset providers the uploader configures
GitHubReleasesName == "GitHub Releases"
CatboxName == "Catbox"
IndexProviderName == "GitHub Git"

\* provider lists start_release_process can pass: the checked subset of
\* [GitHubReleaseProvider, CatboxProvider], in configuration order
ProviderLists ==
    { <<>>, <<GitHubReleasesName>>, <<CatboxName>>,
      <<GitHubReleasesName, CatboxName>> }

ArchiveFile == "tar.zst"
ManifestFile == "json"
FilesToUpload == <<ArchiveFile, ManifestFile>>

\* positional arguments _upload_asset passes to provider.upload_asset
UploadArgs(p) == IF p = GitHubReleasesName THEN 4 ELSE 2

\* positional parameters the provider's upload_asset declares (without self)
UploadParams(p) == IF p = GitHubReleasesName THEN 3 ELSE 2

\* positional arguments run passes to index_provider.commit_manifest_file
CommitArgs == 3

\* positional parameters GitHubGitProvider.commit_manifest_file declares
GitHubGitCommitParams == 2

Url(p, f, v) == <<p, f, v>>

\* dict helpers: a dict is a set of <<key, value>> with unique keys
Keys(d) == {kv[1] : kv \in d}
Put(d, k, v) == {kv \in d : kv[1] # k} \cup {<<k, v>>}

----------------------------------------------------------------------------
(* Uploader: index entries *)

HasLatest(e) == "latest" \in DOMAIN e /\ e["latest"] = TRUE

\* entry.pop("latest", None)
PopLatest(e) == [k \in DOMAIN e \ {"latest"} |-> e[k]]

\* mutant: only the newest existing entry loses its flag
StripLatestFirstOnly(idx) ==
    [i \in 1..Len(idx) |-> IF i = 1 THEN PopLatest(idx[i]) ELSE idx[i]]

\* for entry in current_index: entry.pop("latest", None)
StripLatest(idx) == [i \in 1..Len(idx) |-> PopLatest(idx[i])]

\* new_entry of run, 'latest' only set for non-profiler builds
NewEntry(v, prof, murls, durls) ==
    IF prof
    THEN [version |-> v, manifest_urls |-> murls, download_urls |-> durls,
          profiler |-> prof]
    ELSE [version |-> v, manifest_urls |-> murls, download_urls |-> durls,
          profiler |-> prof, latest |-> TRUE]

\* mutant: the new entry is appended instead of inserted at position 0
UpdatedIndexAppended(idx, v, prof, murls, durls) ==
    (IF prof THEN idx ELSE StripLatest(idx)) \o <<NewEntry(v, prof, murls, durls)>>

\* lines 161-177 of run: strip latest unless profiler, insert the new entry at 0
UpdatedIndex(idx, v, prof, murls, durls) ==
    <<NewEntry(v, prof, murls, durls)>> \o (IF prof THEN idx ELSE StripLatest(idx))

\* mutant: every returned URL is taken for an archive URL
ClassifyDownloadAnyFile(durls, p, f, url) ==
    IF url # "None" THEN Put(durls, p, url) ELSE durls

\* the as_completed loop body: routing of one result into the two dicts
ClassifyDownload(durls, p, f, url) ==
    IF url # "None" /\ f = ArchiveFile THEN Put(durls, p, url) ELSE durls

ClassifyManifest(murls, p, f, url) ==
    IF url # "None" /\ f = ManifestFile /\ p # GitHubReleasesName
    THEN Put(murls, p, url) ELSE murls

\* _upload_asset: the URL, or None when upload_asset raised
UploadResult(p, f, v, ok) ==
    IF UploadArgs(p) = UploadParams(p) /\ ok THEN Url(p, f, v) ELSE "None"

\* mutant: the canonical manifest URL is not recorded
WithIndexManifestSkipped(murls, url) == murls

\* manifest_urls[self.index_provider.get_name()] = manifest_index_url
WithIndexManifest(murls, url) == Put(murls, IndexProviderName, url)

----------------------------------------------------------------------------
(* Launcher: paths *)

\* the default filter of TarFile.extract: "fully_trusted" before Python 3.14,
\* "data" (members outside the destination are refused) from 3.14 on
TarFilters == {"fully_trusted", "data"}

\* self.game_path, self.bin_path
GamePath == <<"game">>
BinPath == GamePath \o <<"bin">>

\* the characters of a path component
Spell(c) ==
    CASE c = "game" -> <<"g", "a", "m", "e">>
      [] c = "bin"  -> <<"b", "i", "n">>
      [] c = "bin2" -> <<"b", "i", "n", "2">>
      [] c = "data" -> <<"d", "a", "t", "a">>
      [] c = ".."   -> <<".", ".">>
      [] OTHER      -> <<c>>

\* the path as a string: components joined by the separator
RECURSIVE PathString(_)
PathString(path) ==
    IF path = <<>> THEN <<>>
    ELSE IF Len(path) = 1 THEN Spell(path[1])
    ELSE Spell(path[1]) \o <<"/">> \o PathString(Tail(path))

\* os.path.normpath: ".." removes the component before it
RECURSIVE NormInto(_, _)
NormInto(done, rest) ==
    IF rest = <<>> THEN done
    ELSE IF rest[1] = ".." /\ done # <<>>
         THEN NormInto(SubSeq(done, 1, Len(done) - 1), Tail(rest))
         ELSE NormInto(Append(done, rest[1]), Tail(rest))

NormPath(path) == NormInto(<<>>, path)

\* str.startswith
StartsWith(str, prefix) ==
    Len(prefix) <= Len(str) /\ SubSeq(str, 1, Len(prefix)) = prefix

\* the path is the directory or lies below it
IsInside(path, dir) ==
    Len(path) > Len(dir) /\ SubSeq(path, 1, Len(dir)) = dir

\* os.path.join(self.bin_path, member.name), where the member lands
MemberPath(name) == NormPath(BinPath \o name)

\* restore_backup lines 130-131: the check on a member name
PathCheckPasses(name) ==
    StartsWith(PathString(NormPath(BinPath \o name)), PathString(NormPath(BinPath)))

----------------------------------------------------------------------------
(* Launcher: files and backups *)

\* names relative to bin: two files of the installation, a file of the
\* sibling directory bin2 and a file of the directory data
FileA == <<"a">>
FileB == <<"b">>
SiblingFile == <<"..", "bin2", "x">>
DataFile == <<"..", "data", "y">>

\* a member name that leaves the game directory
EvilFile == <<"..", "..", "evil">>

\* the member lists of the release archives that can be downloaded
Archives == {<<>>, <<FileA>>, <<FileA, FileB>>, <<FileA, EvilFile>>, <<EvilFile, FileB>>}

\* os.walk(self.bin_path) visits the files in this order
WalkOrder == <<FileA, FileB>>

\* files of the game directory that are not below bin
OutsideFiles == {MemberPath(SiblingFile), MemberPath(DataFile)}

\* the files below bin
BinFiles(files) == {f \in files : IsInside(f, BinPath)}

\* files_to_backup as callers can pass it; <<>> is None
FileLists == {<<>>, <<FileB>>}

\* version_to_backup as callers can pass it
BackupVersions == {"initial", "1.0"}

\* backup_name: "initial_vanilla_files" or f"v{version}_{timestamp}"
InitialBackup == <<"initial", 0>>
BackupName(version, t) == IF version = "initial" THEN InitialBackup ELSE <<version, t>>
\* a backup an earlier session left in launcher_backups
OldBackup == <<"1.0", 0>>
BackupNames == {BackupName(v, t) : v \in BackupVersions, t \in 1..MaxTime} \cup {OldBackup}

\* no <name>.tar.zst and no <name>.meta.json
Absent == [hasArch |-> FALSE, members |-> <<>>, hasMeta |-> FALSE, total |-> 0]

\* a name nothing is stored under
UnknownBackup == <<"0.9", 0>>

\* an archive with its sidecar
Archive(members) ==
    [hasArch |-> TRUE, members |-> members, hasMeta |-> TRUE, total |-> Len(members)]

\* an archive whose sidecar is gone
Orphan(members) ==
    [hasArch |-> TRUE, members |-> members, hasMeta |-> FALSE, total |-> 0]

\* what the old backup can be: nothing, an archive without sidecar, an
\* archive with a member of the sibling directory, one with a member of data
OldBackups ==
    {Absent, Orphan(<<FileA>>), Archive(<<FileA, SiblingFile>>), Archive(<<DataFile>>)}

\* launcher_backups as __init__ finds it (makedirs(exist_ok=True))
BackupRoots ==
    {[n \in BackupNames |-> IF n = OldBackup THEN old ELSE Absent] : old \in OldBackups}

----------------------------------------------------------------------------
(* Uploader: the index repository and its clone *)

\* git_retry(max_retries=3)
MaxGitRetries == 3

\* lists versions.json can hold
IndexLists == {<<>>, <<"1.0">>, <<"1.1", "1.0">>}

\* contents of manifests/manifest-v1.0.json
ManifestData == {"m1", "m2"}

\* a path of a tree: missing, or a file with its content
NoIndex == [exists |-> FALSE, content |-> <<>>]
IndexFile(list) == [exists |-> TRUE, content |-> list]
NoManifest == [exists |-> FALSE, content |-> ""]
ManifestFile10(data) == [exists |-> TRUE, content |-> data]

\* the tree of a repository without commits on the branch, and of one that
\* holds release 1.0
EmptyTree == [index |-> NoIndex, manifest |-> NoManifest]
ReleasedTree == [index |-> IndexFile(<<"1.0">>), manifest |-> ManifestFile10("m1")]

\* manifests_to_update: empty, or data for version 1.0
ManifestUpdates == {{}} \cup {{<<"1.0", data>>} : data \in ManifestData}

\* a clone of origin at the tree t with no call running
GitStart(t) ==
    /\ g_remote = t /\ g_rev = 0
    /\ g_local = t /\ g_base = t.index /\ g_baseRev = 0 /\ g_ahead = 0
    /\ g_dir = t.manifest.exists
    /\ g_op = "none" /\ g_index = <<>> /\ g_manifests = {} /\ g_pc = "idle"
    /\ g_attempt = 0 /\ g_calls = 0 /\ g_sleeps = 0 /\ g_made = 0 /\ g_pushed = 0
    /\ g_result = "none" /\ g_returned = <<>> /\ g_startRev = 0

GitIdle == GitStart(ReleasedTree)

InstallIdle ==
    /\ i_pc = "idle" /\ i_corrupt = FALSE /\ i_verified = "none"
    /\ i_extracting = FALSE /\ i_marker = FALSE
    /\ i_status = "none" /\ i_error = "none"

GuiIdle ==
    /\ u_action = TRUE /\ u_installing = 0 /\ u_window = FALSE
    /\ u_buttons = FALSE /\ u_restoring = <<>> /\ u_queue = <<>>

ManageIdle ==
    /\ m_pc = "idle" /\ m_index = <<>> /\ m_rows = <<>> /\ m_edited = FALSE
    /\ m_saved = <<>> /\ m_updates = {}

\* the two upload_asset calls of one run
UploadCalls == {ArchiveFile, ManifestFile}

\* a repository in state repo = <<commits, tag, release>> and no call made
ReleaseStart(repo) ==
    /\ p_pc = [t \in UploadCalls |-> "idle"] /\ p_err = [t \in UploadCalls |-> "none"]
    /\ p_lock = "free"
    /\ p_commits = repo[1] /\ p_tag = repo[2] /\ p_release = repo[3]
    /\ p_made = [tag |-> 0, release |-> 0] /\ p_assets = {}

ReleaseIdle == ReleaseStart(<<TRUE, TRUE, TRUE>>)

LaterIdle == GuiIdle /\ ManageIdle /\ ReleaseIdle

RestIdle == GitIdle /\ InstallIdle /\ LaterIdle

----------------------------------------------------------------------------
(* Uploader: ReleaseWorkflow.run *)

Say(msg) == log' = Append(log, msg)

\* an exception inside the try block: control goes to the finally clause
Raise(e) == /\ w_error' = e
            /\ w_pc' = "cleanup"

DownloadIdle ==
    /\ d_urls = <<>> /\ d_pc = "idle" /\ d_i = 0 /\ d_attempt = 0
    /\ d_tries = <<>> /\ d_tempFile = FALSE /\ d_result = "none"
    /\ d_known = FALSE /\ d_progress = <<>>
    /\ d_file = <<>> /\ d_last = <<0, 1>> /\ d_decreased = FALSE

FetchIdle ==
    /\ f_versions = <<>> /\ f_pc = "idle" /\ f_pending = {} /\ f_results = <<>>
    /\ f_ok = {} /\ f_releases = <<>> /\ f_latest = -1

InstalledFiles(S) == OutsideFiles \cup {MemberPath(f) : f \in S}

BackupStart(files, root) ==
    /\ fs = files
    /\ backups = root
    /\ now = 1
    /\ b_op = "none" /\ b_pc = "idle" /\ b_name = InitialBackup
    /\ b_paths = <<>> /\ b_total = 0 /\ b_i = 0 /\ b_last = <<0, 1>>
    /\ b_progress = <<>> /\ b_written = {} /\ b_error = "none"

BackupIdle == BackupStart(InstalledFiles({FileA, FileB}), [n \in BackupNames |-> Absent])

ExtractQuiet ==
    /\ x_pc = "idle" /\ x_members = <<>> /\ x_total = 0 /\ x_i = 0
    /\ x_written = {} /\ x_progress = <<>> /\ x_result = "none" /\ x_error = "none"

ExtractIdle == tarFilter = "fully_trusted" /\ ExtractQuiet

LauncherIdle == FetchIdle /\ BackupIdle /\ ExtractIdle

WorkflowIdle ==
    /\ index = <<>> /\ w_pc = "idle" /\ w_version = "" /\ w_profiler = FALSE
    /\ w_providers = <<>> /\ w_tasks = {} /\ w_done = {}
    /\ download_urls = {} /\ manifest_urls = {} /\ manifest_index_url = "None"
    /\ current_index = <<>> /\ tempDir = FALSE /\ w_error = "none"
    /\ log = <<>> /\ indexAtStart = <<>>

\* The workflow is constructed with an index provider. GitHubGitProvider's
\* commit_manifest_file declares (file_path, version); the other choice is an
\* index provider whose method declares the three parameters run passes.
Init ==
    /\ WorkflowIdle
    /\ w_commitParams \in {GitHubGitCommitParams, CommitArgs}
    /\ DownloadIdle
    /\ LauncherIdle
    /\ RestIdle

\* run, lines 104-106: mkdtemp is outside the try block
StartRun(v, prof, provs, ok) ==
    /\ w_pc = "idle"
    /\ Len(index) < MaxIndexLen
    /\ w_version' = v /\ w_profiler' = prof /\ w_providers' = provs
    /\ w_tasks' = {} /\ w_done' = {}
    /\ download_urls' = {} /\ manifest_urls' = {}
    /\ manifest_index_url' = "None" /\ current_index' = <<>>
    /\ indexAtStart' = index
    /\ IF ok
       THEN /\ tempDir' = TRUE /\ w_error' = "none" /\ w_pc' = "archive"
            /\ log' = <<"Starting release process", "Created temporary directory">>
       ELSE /\ tempDir' = FALSE /\ w_error' = "OSError" /\ w_pc' = "idle"
            /\ log' = <<"Starting release process">>
    /\ UNCHANGED <<dvars, lvars, index, w_commitParams>>

\* _create_archive
CreateArchive(ok) ==
    /\ w_pc = "archive"
    /\ IF ok
       THEN /\ log' = log \o <<"Creating archive", "Archive created successfully">>
            /\ w_pc' = "hash" /\ UNCHANGED w_error
       ELSE /\ Say("Creating archive") /\ Raise("OSError")
    /\ UNCHANGED <<dvars, lvars, index, w_version, w_profiler, w_providers, w_commitParams,
                   w_tasks, w_done, download_urls, manifest_urls,
                   manifest_index_url, current_index, tempDir, indexAtStart>>

\* _calculate_sha256
CalculateSha256(ok) ==
    /\ w_pc = "hash"
    /\ IF ok
       THEN /\ Say("Calculated SHA256 hash") /\ w_pc' = "manifest"
            /\ UNCHANGED w_error
       ELSE /\ Raise("OSError") /\ UNCHANGED log
    /\ UNCHANGED <<dvars, lvars, index, w_version, w_profiler, w_providers, w_commitParams,
                   w_tasks, w_done, download_urls, manifest_urls,
                   manifest_index_url, current_index, tempDir, indexAtStart>>

\* _create_manifest
CreateManifest(ok) ==
    /\ w_pc = "manifest"
    /\ IF ok
       THEN /\ log' = log \o <<"Creating manifest.json", "manifest.json created successfully">>
            /\ w_pc' = "submit" /\ UNCHANGED w_error
       ELSE /\ Say("Creating manifest.json") /\ Raise("OSError")
    /\ UNCHANGED <<dvars, lvars, index, w_version, w_profiler, w_providers, w_commitParams,
                   w_tasks, w_done, download_urls, manifest_urls,
                   manifest_index_url, current_index, tempDir, indexAtStart>>

\* mutant: only the archive is submitted
UploadTasksArchiveOnly(provs) == {<<provs[i], ArchiveFile>> : i \in 1..Len(provs)}

\* the futures of the executor: one per provider and file
UploadTasks(provs) ==
    {<<provs[i], FilesToUpload[j]>> : i \in 1..Len(provs), j \in 1..Len(FilesToUpload)}

AllUploadTasks == UNION {UploadTasks(provs) : provs \in ProviderLists}

\* lines 118-128: ThreadPoolExecutor(max_workers=0) raises ValueError
SubmitUploads ==
    /\ w_pc = "submit"
    /\ Say("Starting parallel asset uploads")
    /\ IF Len(w_providers) * 2 > 0
       THEN /\ w_tasks' = UploadTasks(w_providers)
            /\ w_pc' = "uploading" /\ UNCHANGED w_error
       ELSE /\ w_error' = "ValueError" /\ w_pc' = "cleanup"
            /\ UNCHANGED w_tasks
    /\ UNCHANGED <<dvars, lvars, index, w_version, w_profiler, w_providers, w_commitParams,
                   w_done, download_urls, manifest_urls,
                   manifest_index_url, current_index, tempDir, indexAtStart>>

\* one future completes (_upload_asset) and as_completed hands it to the loop body
UploadTaskCompletes(t, ok) ==
    /\ w_pc = "uploading"
    /\ t \in w_tasks
    /\ LET url == UploadResult(t[1], t[2], w_version, ok) IN
       /\ download_urls' = ClassifyDownload(download_urls, t[1], t[2], url)
       /\ manifest_urls' = ClassifyManifest(manifest_urls, t[1], t[2], url)
       /\ w_done' = w_done \cup {<<t[1], t[2], url # "None">>}
    /\ w_tasks' = w_tasks \ {t}
    /\ UNCHANGED <<dvars, lvars, index, w_pc, w_version, w_profiler, w_providers,
                   w_commitParams, manifest_index_url, current_index, tempDir,
                   w_error, log, indexAtStart>>

\* mutant: the executor block is left without waiting for the futures
UploadsDoneNoWait ==
    /\ w_pc = "uploading"
    /\ IF download_urls = {}
       THEN /\ Raise("RuntimeError") /\ UNCHANGED log
       ELSE /\ Say("Parallel asset uploads completed") /\ w_pc' = "commit"
            /\ UNCHANGED w_error
    /\ UNCHANGED <<dvars, lvars, index, w_version, w_profiler, w_providers, w_commitParams,
                   w_tasks, w_done, download_urls, manifest_urls,
                   manifest_index_url, current_index, tempDir, indexAtStart>>

\* lines 140-144: leaving the executor block, then the archive-URL check
UploadsDone ==
    /\ w_pc = "uploading"
    /\ w_tasks = {}
    /\ IF download_urls = {}
       THEN /\ Raise("RuntimeError") /\ UNCHANGED log
       ELSE /\ Say("Parallel asset uploads completed") /\ w_pc' = "commit"
            /\ UNCHANGED w_error
    /\ UNCHANGED <<dvars, lvars, index, w_version, w_profiler, w_providers, w_commitParams,
                   w_tasks, w_done, download_urls, manifest_urls,
                   manifest_index_url, current_index, tempDir, indexAtStart>>

\* lines 146-151: commit_manifest_file(manifest_path, version, profiler); the
\* call raises TypeError on each retry when the provider's method declares
\* another number of parameters, and a git error when the push keeps failing
CommitManifest(ok) ==
    /\ w_pc = "commit"
    /\ IF CommitArgs # w_commitParams
       THEN /\ log' = log \o <<"Committing manifest", "call commit_manifest_file">>
            /\ Raise("TypeError")
            /\ UNCHANGED manifest_index_url
       ELSE IF ok
       THEN /\ log' = log \o <<"Committing manifest", "call commit_manifest_file",
                               "Manifest committed">>
            /\ manifest_index_url' = Url(IndexProviderName, "manifests", w_version)
            /\ w_pc' = "getindex" /\ UNCHANGED w_error
       ELSE /\ log' = log \o <<"Committing manifest", "call commit_manifest_file">>
            /\ Raise("GitCommandError")
            /\ UNCHANGED manifest_index_url
    /\ UNCHANGED <<dvars, lvars, index, w_version, w_profiler, w_providers, w_commitParams,
                   w_tasks, w_done, download_urls, manifest_urls,
                   current_index, tempDir, indexAtStart>>

\* lines 153-159: get_index_content pulls and reads versions.json
GetIndexContent(ok) ==
    /\ w_pc = "getindex"
    /\ IF ok
       THEN /\ log' = log \o <<"Updating version index", "call get_index_content">>
            /\ current_index' = index
            /\ manifest_urls' = WithIndexManifest(manifest_urls, manifest_index_url)
            /\ w_pc' = "update" /\ UNCHANGED w_error
       ELSE /\ log' = log \o <<"Updating version index", "call get_index_content">>
            /\ Raise("GitCommandError")
            /\ UNCHANGED <<current_index, manifest_urls>>
    /\ UNCHANGED <<dvars, lvars, index, w_version, w_profiler, w_providers, w_commitParams,
                   w_tasks, w_done, download_urls,
                   manifest_index_url, tempDir, indexAtStart>>

\* lines 161-180: strip latest, prepend the new entry, update_index_content
UpdateIndexContent(ok) ==
    /\ w_pc = "update"
    /\ current_index' = UpdatedIndex(current_index, w_version, w_profiler,
                                     manifest_urls, download_urls)
    /\ IF ok
       THEN /\ index' = current_index'
            /\ log' = log \o <<"call update_index_content", "Version index updated">>
            /\ w_pc' = "cleanup" /\ UNCHANGED w_error
       ELSE /\ Say("call update_index_content")
            /\ Raise("GitCommandError")
            /\ UNCHANGED index
    /\ UNCHANGED <<dvars, lvars, w_version, w_profiler, w_providers, w_commitParams,
                   w_tasks, w_done, download_urls, manifest_urls,
                   manifest_index_url, tempDir, indexAtStart>>

\* mutant: the directory is removed at the end of the try body, not in finally
CleanupOnSuccessOnly ==
    /\ w_pc = "cleanup"
    /\ tempDir' = (tempDir /\ w_error # "none")
    /\ log' = log \o <<"Cleaning up temporary files", "Cleanup complete">>
                  \o (IF w_error = "none" THEN <<"Successfully completed release">>
                      ELSE <<>>)
    /\ w_pc' = "idle"
    /\ UNCHANGED <<dvars, lvars, index, w_version, w_profiler, w_providers, w_commitParams,
                   w_tasks, w_done, download_urls, manifest_urls,
                   manifest_index_url, current_index, w_error, indexAtStart>>

\* lines 182-190: the finally clause, then either the pending exception
\* propagates or the success message is logged
Cleanup ==
    /\ w_pc = "cleanup"
    /\ tempDir' = FALSE
    /\ log' = log \o <<"Cleaning up temporary files", "Cleanup complete">>
                  \o (IF w_error = "none" THEN <<"Successfully completed release">>
                      ELSE <<>>)
    /\ w_pc' = "idle"
    /\ UNCHANGED <<dvars, lvars, index, w_version, w_profiler, w_providers, w_commitParams,
                   w_tasks, w_done, download_urls, manifest_urls,
                   manifest_index_url, current_index, w_error, indexAtStart>>

Next ==
    \/ \E v \in Versions, prof \in BOOLEAN, provs \in ProviderLists, ok \in BOOLEAN :
          StartRun(v, prof, provs, ok)
    \/ \E ok \in BOOLEAN : CreateArchive(ok)
    \/ \E ok \in BOOLEAN : CalculateSha256(ok)
    \/ \E ok \in BOOLEAN : CreateManifest(ok)
    \/ SubmitUploads
    \/ \E t \in AllUploadTasks, ok \in BOOLEAN : UploadTaskCompletes(t, ok)
    \/ UploadsDone
    \/ \E ok \in BOOLEAN : CommitManifest(ok)
    \/ \E ok \in BOOLEAN : GetIndexContent(ok)
    \/ \E ok \in BOOLEAN : UpdateIndexContent(ok)
    \/ Cleanup

Spec == Init /\ [][Next]_vars

----------------------------------------------------------------------------
(* Launcher: NetworkManager.download_file_with_fallback *)

PreferredProvider == "GitHub Git"
AllMirrors == <<"GitHub Releases", "Catbox", "Catbox (Anonymous)", "Mirror">>
ProviderNames == {PreferredProvider} \cup {AllMirrors[i] : i \in 1..MaxMirrors}

\* max_retries
MaxRetries == 3

\* the urls dicts a release can carry: distinct provider names in any
\* insertion order, each with its URL
RECURSIVE DictsOver(_)
DictsOver(names) ==
    {<<>>} \cup UNION { {<<<<p, Url(p, ArchiveFile, "1.0")>>>> \o d : d \in DictsOver(names \ {p})}
                        : p \in names }

\* mutant: the dict order is kept as it is
GetSortedUrlsUnsorted(urls) == urls

\* _get_sorted_urls
GetSortedUrls(urls) ==
    IF \E i \in 1..Len(urls) : urls[i][1] = PreferredProvider
    THEN LET gg == CHOOSE i \in 1..Len(urls) : urls[i][1] = PreferredProvider
             NotPreferred(kv) == kv[1] # PreferredProvider
         IN <<urls[gg]>> \o SelectSeq(urls, NotPreferred)
    ELSE urls

sorted_urls == GetSortedUrls(d_urls)

\* lines 64-68: the temp file is created and closed, the urls are sorted
StartDownload(urls) ==
    /\ d_pc = "idle"
    /\ d_urls' = urls
    /\ d_tempFile' = TRUE
    /\ d_i' = 1 /\ d_attempt' = 0
    /\ d_tries' = <<>> /\ d_result' = "none"
    /\ d_known' = FALSE /\ d_progress' = <<>>
    /\ d_file' = <<>> /\ d_last' = <<0, 1>> /\ d_decreased' = FALSE
    /\ d_pc' = "loop"
    /\ UNCHANGED <<wvars, lvars>>

\* lines 85-93: the body comes in BodyChunks chunks of equal size;
\* bytes_downloaded / total_size is reported after each of the first k chunks
\* when the size is known (each step is above 0.01)
PartProgress(known, k) ==
    IF known THEN [c \in 1..k |-> <<c, BodyChunks>>] ELSE <<>>

\* lines 85-93: the values reported while the whole body is streamed
ChunkProgress(known) == PartProgress(known, BodyChunks)

\* mutant: the destination is opened for appending
OpenedAppending(file) == file

\* line 85: open(destination, "wb") truncates the file
Opened(file) == <<>>

\* lines 86-88: the first k chunks of this attempt are written
Written(file, k) == file \o [c \in 1..k |-> <<Len(d_tries) + 1, c>>]

\* a value of seq is below the value passed before it, last being the one
\* passed before seq
Decreases(last, seq) ==
    LET all == <<last>> \o seq IN
    \E n \in 1..(Len(all) - 1) :
        all[n + 1][1] * all[n][2] < all[n][1] * all[n + 1][2]

\* the callback has seen seq after last
Seen(last, seq) ==
    /\ d_last' = IF seq = <<>> THEN last ELSE seq[Len(seq)]
    /\ d_decreased' = (d_decreased \/ Decreases(last, seq))

\* lines 85-96: the values of an attempt that succeeds, the last one 1.0
StreamProgress(known) == ChunkProgress(known) \o <<<<1, 1>>>>

\* lines 74-99: the request and the streaming succeed, destination is returned
AttemptSucceeds(known) ==
    /\ d_pc = "loop" /\ d_i <= Len(sorted_urls)
    /\ d_attempt < MaxRetries
    /\ d_tries' = Append(d_tries, <<sorted_urls[d_i][1], "ok">>)
    /\ d_known' = known /\ d_progress' = StreamProgress(known)
    /\ d_file' = Written(Opened(d_file), BodyChunks)
    /\ Seen(d_last, StreamProgress(known))
    /\ d_result' = "path"
    /\ d_pc' = "idle"
    /\ UNCHANGED <<wvars, lvars, d_urls, d_i, d_attempt, d_tempFile>>

\* lines 79-108: the request fails (opened = FALSE) or the stream breaks after
\* k chunks; requests.RequestException is caught; retry, or next provider
AttemptFails(known, opened, k) ==
    /\ d_pc = "loop" /\ d_i <= Len(sorted_urls)
    /\ d_attempt < MaxRetries
    /\ k < BodyChunks /\ (~opened => k = 0 /\ ~known)
    /\ d_file' = IF opened THEN Written(Opened(d_file), k) ELSE d_file
    /\ Seen(d_last, PartProgress(known, k))
    /\ d_tries' = Append(d_tries, <<sorted_urls[d_i][1], "RequestException">>)
    /\ IF d_attempt + 1 < MaxRetries
       THEN d_attempt' = d_attempt + 1 /\ UNCHANGED d_i
       ELSE d_attempt' = 0 /\ d_i' = d_i + 1
    /\ UNCHANGED <<wvars, lvars, d_urls, d_pc, d_tempFile, d_result, d_known,
                   d_progress>>

\* lines 79-96: an exception that is no requests.RequestException (writing
\* the destination fails, a malformed content-length) is not caught
AttemptRaises ==
    /\ d_pc = "loop" /\ d_i <= Len(sorted_urls)
    /\ d_attempt < MaxRetries
    /\ d_tries' = Append(d_tries, <<sorted_urls[d_i][1], "OSError">>)
    /\ d_result' = "OSError"
    /\ d_pc' = "idle"
    /\ UNCHANGED <<wvars, lvars, d_urls, d_i, d_attempt, d_tempFile, d_known,
                   d_progress, d_file, d_last, d_decreased>>

\* lines 110-112: every provider is used up
AllUrlsFailed ==
    /\ d_pc = "loop" /\ d_i > Len(sorted_urls)
    /\ d_tempFile' = FALSE
    /\ d_result' = "None"
    /\ d_pc' = "idle"
    /\ UNCHANGED <<wvars, lvars, d_urls, d_i, d_attempt, d_tries, d_known,
                   d_progress, d_file, d_last, d_decreased>>

InitDownload ==
    /\ WorkflowIdle /\ w_commitParams = GitHubGitCommitParams
    /\ DownloadIdle
    /\ LauncherIdle
    /\ RestIdle

NextDownload ==
    \/ \E urls \in DictsOver(ProviderNames) : StartDownload(urls)
    \/ \E known \in BOOLEAN : AttemptSucceeds(known)
    \/ \E known \in BOOLEAN, opened \in BOOLEAN, k \in 0..BodyChunks :
           AttemptFails(known, opened, k)
    \/ AttemptRaises
    \/ AllUrlsFailed

SpecDownload == InitDownload /\ [][NextDownload]_vars

----------------------------------------------------------------------------
(* Launcher: NetworkManager.fetch_all_release_info, find_latest_version *)

\* Version objects of versions.json: latest defaults to False
VersionEntries == [version : Versions, latest : BOOLEAN]

RECURSIVE SeqsUpTo(_, _)
SeqsUpTo(S, n) ==
    IF n = 0 THEN {<<>>}
    ELSE LET shorter == SeqsUpTo(S, n - 1)
         IN shorter \cup {Append(q, e) : q \in {t \in shorter : Len(t) = n - 1}, e \in S}

\* ReleaseInfo(**{**version.model_dump(), **manifest.model_dump()})
ReleaseInfo(v) ==
    [version |-> v.version, latest |-> v.latest,
     archive_sha256 |-> <<"sha256", v.version>>]

\* mutant: the results stay in completion order
SortByIndexSkipped(results) == results

\* results.sort(key=lambda x: x[0]); the keys are distinct
SortByIndex(results) ==
    LET keys == {results[j][1] : j \in 1..Len(results)}
        Rank(k) == Cardinality({h \in keys : h < k}) + 1
    IN [r \in 1..Len(results) |->
           results[CHOOSE j \in 1..Len(results) : Rank(results[j][1]) = r]]

\* releases = [release for _, release in results]
ReleasesOf(results) == [j \in 1..Len(results) |-> results[j][2]]

\* find_latest_version: position of the first version with latest, 0 for None
FindLatestVersion(versions) ==
    IF \E i \in 1..Len(versions) : versions[i].latest
    THEN CHOOSE i \in 1..Len(versions) :
            /\ versions[i].latest
            /\ \A j \in 1..(i - 1) : ~versions[j].latest
    ELSE 0

\* lines 226-239: fetch_versions, then one future per version
FetchStart(versions) ==
    /\ f_pc = "idle"
    /\ f_versions' = versions
    /\ f_results' = <<>> /\ f_ok' = {} /\ f_releases' = <<>> /\ f_latest' = -1
    /\ IF versions = <<>>
       THEN f_pc' = "returned" /\ f_pending' = {}
       ELSE f_pc' = "fetching" /\ f_pending' = 1..Len(versions)
    /\ UNCHANGED <<wvars, dvars, rvars, bvars, xvars>>

\* lines 244-251: a future completes with a manifest
ManifestFetched(i) ==
    /\ f_pc = "fetching" /\ i \in f_pending
    /\ f_pending' = f_pending \ {i}
    /\ f_results' = Append(f_results, <<i, ReleaseInfo(f_versions[i])>>)
    /\ f_ok' = f_ok \cup {i}
    /\ UNCHANGED <<wvars, dvars, rvars, bvars, xvars, f_versions, f_pc, f_releases, f_latest>>

\* lines 252-253: fetch_manifest returned None
ManifestFailed(i) ==
    /\ f_pc = "fetching" /\ i \in f_pending
    /\ f_pending' = f_pending \ {i}
    /\ UNCHANGED <<wvars, dvars, rvars, bvars, xvars, f_versions, f_pc, f_results, f_ok,
                   f_releases, f_latest>>

\* line 246: future.result() re-raises what download_file_with_fallback let through
ManifestRaised(i) ==
    /\ f_pc = "fetching" /\ i \in f_pending
    /\ f_pending' = {}
    /\ f_pc' = "raised"
    /\ UNCHANGED <<wvars, dvars, rvars, bvars, xvars, f_versions, f_results, f_ok,
                   f_releases, f_latest>>

\* lines 255-259: sort back into index order and return
FetchReturn ==
    /\ f_pc = "fetching" /\ f_pending = {}
    /\ f_releases' = ReleasesOf(SortByIndex(f_results))
    /\ f_pc' = "returned"
    /\ UNCHANGED <<wvars, dvars, rvars, bvars, xvars, f_versions, f_pending, f_results,
                   f_ok, f_latest>>

\* find_latest_version(versions)
FindLatest ==
    /\ f_pc = "returned" /\ f_latest = -1
    /\ f_latest' = FindLatestVersion(f_versions)
    /\ UNCHANGED <<wvars, dvars, rvars, bvars, xvars, f_versions, f_pc, f_pending,
                   f_results, f_ok, f_releases>>

\* the caller drops the result; the next call may start
FetchForget ==
    /\ f_pc \in {"returned", "raised"}
    /\ f_pc' = "idle"
    /\ UNCHANGED <<wvars, dvars, rvars, bvars, xvars, f_versions, f_pending, f_results,
                   f_ok, f_releases, f_latest>>

InitFetch ==
    /\ WorkflowIdle /\ w_commitParams = GitHubGitCommitParams
    /\ DownloadIdle
    /\ LauncherIdle
    /\ RestIdle

NextFetch ==
    \/ \E versions \in SeqsUpTo(VersionEntries, MaxFetch) : FetchStart(versions)
    \/ \E i \in 1..MaxFetch : ManifestFetched(i)
    \/ \E i \in 1..MaxFetch : ManifestFailed(i)
    \/ \E i \in 1..MaxFetch : ManifestRaised(i)
    \/ FetchReturn
    \/ FindLatest
    \/ FetchForget

SpecFetch == InitFetch /\ [][NextFetch]_vars

----------------------------------------------------------------------------
(* Launcher: BackupManager (src/launcher/core/backup.py) *)

\* what launcher_backups holds under a name
Stored(name) == IF name \in BackupNames THEN backups[name] ELSE Absent

\* current_progress - last_progress >= step, for ratios <<numerator, denominator>>
ProgressDue(cur, last) ==
    100 * (cur[1] * last[2] - last[1] * cur[2]) >= cur[2] * last[2]

\* progress_callback((i + 1) / total_files) when it moved by a hundredth
Report(i, total) ==
    LET cur == <<i + 1, total>>
    IN IF ProgressDue(cur, b_last)
       THEN b_progress' = Append(b_progress, cur) /\ b_last' = cur
       ELSE UNCHANGED <<b_progress, b_last>>

\* mutant: no final value
ReportDoneSkipped == b_progress' = b_progress

\* progress_callback(1.0)
ReportDone == b_progress' = Append(b_progress, <<1, 1>>)

\* an operation is called
Begin(op, name) ==
    /\ b_op' = op /\ b_name' = name
    /\ b_progress' = <<>> /\ b_written' = {}

\* the locals of an operation that is not running
NoLocals == b_paths' = <<>> /\ b_total' = 0 /\ b_i' = 0 /\ b_last' = <<0, 1>>

\* the operation returns (e = "none") or raises e
Return(e) == b_pc' = "idle" /\ b_error' = e /\ NoLocals

\* mutant: the initial backup is taken again
InitialExistsNever(version) == FALSE

\* line 42: version == "initial" and os.path.exists(archive_path)
InitialExists(version) ==
    version = "initial" /\ backups[InitialBackup].hasArch

\* lines 47-50: the files named that exist, or the walk of bin
FilePaths(files) ==
    SelectSeq(IF files # <<>> THEN files ELSE WalkOrder,
              LAMBDA f : MemberPath(f) \in fs)

\* mutant: the sidecar is left behind
CleanupPartialArchiveOnly(name) ==
    [backups EXCEPT ![name].hasArch = FALSE, ![name].members = <<>>]

\* mutant: only the sidecar is removed
CleanupPartialSidecarOnly(name) ==
    [backups EXCEPT ![name].hasMeta = FALSE, ![name].total = 0]

\* lines 78-81: remove the archive and the sidecar
CleanupPartial(name) == [backups EXCEPT ![name] = Absent]

\* lines 75-82: clean up and re-raise
CreateFailed ==
    /\ backups' = CleanupPartial(b_name)
    /\ Return("IOError")
    /\ UNCHANGED b_progress

\* lines 32-52
CreateBackup(version, files) ==
    /\ b_pc = "idle"
    /\ Begin("create", BackupName(version, now))
    /\ IF InitialExists(version)
       THEN Return("none")
       ELSE /\ b_pc' = "meta"
            /\ b_paths' = FilePaths(files)
            /\ b_total' = Len(FilePaths(files))
            /\ b_i' = 0 /\ b_last' = <<0, 1>> /\ b_error' = "none"
    /\ UNCHANGED <<wvars, dvars, rvars, fvars, xvars, fs, backups, now>>

\* mutant: no sidecar is written
MetaWrittenSkipped(name, total) == backups

\* lines 55-56: json.dump({"total_files": total_files}) into the sidecar
MetaWritten(name, total) ==
    [backups EXCEPT ![name].hasMeta = TRUE, ![name].total = total]

\* lines 55-56: the sidecar is written
WriteMeta(ok) ==
    /\ b_pc = "meta"
    /\ IF ok
       THEN /\ backups' = MetaWritten(b_name, b_total)
            /\ b_pc' = "archive"
            /\ UNCHANGED <<b_error, b_paths, b_total, b_i, b_last, b_progress>>
       ELSE CreateFailed
    /\ UNCHANGED <<wvars, dvars, rvars, fvars, xvars, fs, now, b_op, b_name, b_written>>

\* line 62: the archive is opened for writing
OpenArchive(ok) ==
    /\ b_pc = "archive"
    /\ IF ok
       THEN /\ backups' = [backups EXCEPT ![b_name].hasArch = TRUE,
                                          ![b_name].members = <<>>]
            /\ b_pc' = "add"
            /\ UNCHANGED <<b_error, b_paths, b_total, b_i, b_last, b_progress>>
       ELSE CreateFailed
    /\ UNCHANGED <<wvars, dvars, rvars, fvars, xvars, fs, now, b_op, b_name, b_written>>

\* lines 63-70: one file is added under its path relative to bin
AddFile(ok) ==
    /\ b_pc = "add" /\ b_i < b_total
    /\ IF ok
       THEN /\ backups' = [backups EXCEPT
                              ![b_name].members = Append(@, b_paths[b_i + 1])]
            /\ b_i' = b_i + 1
            /\ Report(b_i, b_total)
            /\ UNCHANGED <<b_pc, b_error, b_paths, b_total>>
       ELSE CreateFailed
    /\ UNCHANGED <<wvars, dvars, rvars, fvars, xvars, fs, now, b_op, b_name, b_written>>

\* lines 62, 72-73: the archive is closed, progress 1.0
CloseArchive(ok) ==
    /\ b_pc = "add" /\ b_i = b_total
    /\ IF ok
       THEN ReportDone /\ Return("none") /\ UNCHANGED backups
       ELSE CreateFailed
    /\ UNCHANGED <<wvars, dvars, rvars, fvars, xvars, fs, now, b_op, b_name, b_written>>

\* mutant: the sidecar is not looked for
RestorableArchiveOnly(name) == Stored(name).hasArch

\* lines 106-109: the archive and the sidecar exist
Restorable(name) == Stored(name).hasArch /\ Stored(name).hasMeta

\* lines 103-109: both files must exist
RestoreBackup(name) ==
    /\ b_pc = "idle"
    /\ Begin("restore", name)
    /\ IF ~Restorable(name)
       THEN Return("FileNotFoundError")
       ELSE b_pc' = "rmtree" /\ b_error' = "none" /\ NoLocals
    /\ UNCHANGED <<wvars, dvars, rvars, fvars, xvars, fs, backups, now>>

\* mutant: bin is kept
RemoveTreeSkipped(files) == files

\* shutil.rmtree(self.bin_path)
RemoveTree(files) == files \ BinFiles(files)

\* lines 112-121: bin is removed, the sidecar read; an empty backup is done
RemoveBin ==
    /\ b_pc = "rmtree"
    /\ fs' = RemoveTree(fs)
    /\ IF backups[b_name].total = 0
       THEN ReportDone /\ Return("none")
       ELSE /\ b_pc' = "extract"
            /\ b_total' = backups[b_name].total
            /\ UNCHANGED <<b_progress, b_error, b_paths, b_i, b_last>>
    /\ UNCHANGED <<wvars, dvars, rvars, fvars, xvars, backups, now, b_op, b_name, b_written>>

\* lines 143-145: the restore ends with the exception e
RestoreRaises(e) ==
    /\ Return(e)
    /\ UNCHANGED <<fs, b_progress, b_written>>

\* lines 128-138: one member is checked and extracted.  TarFile.extract writes
\* where the joined path resolves; the "data" filter refuses a member that
\* resolves outside bin.  A read or write error can end any extraction.
ExtractMember(ok) ==
    /\ b_pc = "extract" /\ b_i < Len(backups[b_name].members)
    /\ LET name == backups[b_name].members[b_i + 1]
       IN IF ~PathCheckPasses(name)
          THEN ok /\ RestoreRaises("IOError")
          ELSE IF tarFilter = "data" /\ ~IsInside(MemberPath(name), BinPath)
          THEN ok /\ RestoreRaises("TarError")
          ELSE IF ~ok
          THEN RestoreRaises("IOError")
          ELSE /\ fs' = fs \cup {MemberPath(name)}
               /\ b_written' = b_written \cup {MemberPath(name)}
               /\ b_i' = b_i + 1
               /\ Report(b_i, b_total)
               /\ UNCHANGED <<b_pc, b_error, b_paths, b_total>>
    /\ UNCHANGED <<wvars, dvars, rvars, fvars, xvars, backups, now, b_op, b_name>>

\* lines 140-141: every member is extracted, progress 1.0
RestoreDone ==
    /\ b_pc = "extract" /\ b_i = Len(backups[b_name].members)
    /\ ReportDone
    /\ Return("none")
    /\ UNCHANGED <<wvars, dvars, rvars, fvars, xvars, fs, backups, now, b_op, b_name,
                   b_written>>

\* delete_backup: os.remove succeeds ("ok") or fails on the archive
DeleteOutcomes == {"ok", "archive"}

\* mutant: the sidecar is kept
DeletedArchiveOnly(name, outcome) ==
    IF outcome = "archive" THEN backups
    ELSE [backups EXCEPT ![name].hasArch = FALSE, ![name].members = <<>>]

\* lines 160-162: what is left in launcher_backups
Deleted(name, outcome) ==
    IF outcome = "archive" THEN backups
    ELSE [backups EXCEPT ![name] = Absent]

\* lines 153-165
DeleteBackup(name, outcome) ==
    /\ b_pc = "idle"
    /\ Begin("delete", name)
    /\ IF ~Stored(name).hasArch
       THEN /\ outcome = "ok"
            /\ Return("FileNotFoundError")
            /\ UNCHANGED backups
       ELSE /\ backups' = Deleted(name, outcome)
            /\ Return(IF outcome = "ok" THEN "none" ELSE "OSError")
    /\ UNCHANGED <<wvars, dvars, rvars, fvars, xvars, fs, now>>

\* a second passes
Tick ==
    /\ b_pc = "idle" /\ now < MaxTime
    /\ now' = now + 1
    /\ UNCHANGED <<wvars, dvars, rvars, fvars, xvars, fs, backups, b_op, b_pc, b_name,
                   b_paths, b_total, b_i, b_last, b_progress, b_written, b_error>>

InitBackup ==
    /\ WorkflowIdle /\ w_commitParams = GitHubGitCommitParams
    /\ DownloadIdle
    /\ FetchIdle
    /\ RestIdle
    /\ tarFilter \in TarFilters /\ ExtractQuiet
    /\ \E root \in BackupRoots : BackupStart(InstalledFiles({FileA, FileB}), root)

NextBackup ==
    \/ \E version \in BackupVersions, files \in FileLists : CreateBackup(version, files)
    \/ \E ok \in BOOLEAN : WriteMeta(ok)
    \/ \E ok \in BOOLEAN : OpenArchive(ok)
    \/ \E ok \in BOOLEAN : AddFile(ok)
    \/ \E ok \in BOOLEAN : CloseArchive(ok)
    \/ \E name \in BackupNames \cup {UnknownBackup} : RestoreBackup(name)
    \/ RemoveBin
    \/ \E ok \in BOOLEAN : ExtractMember(ok)
    \/ RestoreDone
    \/ \E name \in BackupNames \cup {UnknownBackup}, outcome \in DeleteOutcomes :
           DeleteBackup(name, outcome)
    \/ Tick

SpecBackup == InitBackup /\ [][NextBackup]_vars

----------------------------------------------------------------------------
(* Launcher: NetworkManager.extract_archive (destination: bin) *)

\* lines 146-158: the manifest's file count; nothing is extracted when it is 0
ExtractArchive(members, total) ==
    /\ x_pc = "idle"
    /\ x_members' = members /\ x_total' = total
    /\ x_i' = 0 /\ x_written' = {} /\ x_error' = "none"
    /\ IF total = 0
       THEN x_progress' = <<<<1, 1>>>> /\ x_pc' = "idle" /\ x_result' = "returned"
       ELSE x_progress' = <<>> /\ x_pc' = "extract" /\ x_result' = "none"
    /\ UNCHANGED <<wvars, dvars, rvars, fvars, bvars, tarFilter>>

\* lines 172-177: TarError, ZstdError and IOError are logged, not raised
ExtractLogsError(e) ==
    /\ x_error' = e
    /\ x_pc' = "idle" /\ x_result' = "returned"
    /\ UNCHANGED <<fs, x_i, x_written, x_progress>>

\* lines 164-168: one member is extracted where its name resolves, unless the
\* "data" filter refuses it or reading or writing fails
ExtractNext(ok) ==
    /\ x_pc = "extract" /\ x_i < Len(x_members)
    /\ LET name == x_members[x_i + 1]
       IN IF tarFilter = "data" /\ ~IsInside(MemberPath(name), BinPath)
          THEN ok /\ ExtractLogsError("TarError")
          ELSE IF ~ok
          THEN ExtractLogsError("IOError")
          ELSE /\ fs' = fs \cup {MemberPath(name)}
               /\ x_written' = x_written \cup {MemberPath(name)}
               /\ x_i' = x_i + 1
               /\ x_progress' = Append(x_progress, <<x_i + 1, x_total>>)
               /\ UNCHANGED <<x_pc, x_result, x_error>>
    /\ UNCHANGED <<wvars, dvars, rvars, fvars, bstate, tarFilter, x_members, x_total>>

\* lines 169-171: the archive is read to its end, progress 1.0
ExtractFinished ==
    /\ x_pc = "extract" /\ x_i = Len(x_members)
    /\ x_progress' = Append(x_progress, <<1, 1>>)
    /\ x_pc' = "idle" /\ x_result' = "returned"
    /\ UNCHANGED <<wvars, dvars, rvars, fvars, bvars, tarFilter, x_members, x_total, x_i,
                   x_written, x_error>>

InitExtract ==
    /\ WorkflowIdle /\ w_commitParams = GitHubGitCommitParams
    /\ DownloadIdle
    /\ FetchIdle
    /\ RestIdle
    /\ \E S \in {{}, {FileA, FileB}} :
           BackupStart(InstalledFiles(S), [n \in BackupNames |-> Absent])
    /\ tarFilter \in TarFilters /\ ExtractQuiet

NextExtract ==
    \/ \E members \in Archives, total \in 0..MaxFiles : ExtractArchive(members, total)
    \/ \E ok \in BOOLEAN : ExtractNext(ok)
    \/ ExtractFinished

SpecExtract == InitExtract /\ [][NextExtract]_vars

----------------------------------------------------------------------------
(* Uploader: GitHubGitProvider and git_retry (src/uploader/providers/github_git.py) *)

\* the methods wrapped by git_retry
RetriedOps == {"update_index_content", "commit_manifest_file", "save_all_changes"}

\* the data of the one manifest the call writes
ManifestArg == (CHOOSE kv \in g_manifests : TRUE)[2]

\* origin.pull(): nothing to fetch, a fast-forward, or a merge commit; the
\* merge takes versions.json from the side that changed it and fails when
\* both sides changed it differently
PullOutcome ==
    IF g_rev = g_baseRev
    THEN [conflict |-> FALSE, local |-> g_local, merge |-> 0]
    ELSE IF g_ahead = 0
    THEN [conflict |-> FALSE, local |-> g_remote, merge |-> 0]
    ELSE IF g_local.index = g_base
    THEN [conflict |-> FALSE, local |-> [g_local EXCEPT !.index = g_remote.index],
          merge |-> 1]
    ELSE IF g_remote.index = g_base \/ g_remote.index = g_local.index
    THEN [conflict |-> FALSE, local |-> g_local, merge |-> 1]
    ELSE [conflict |-> TRUE, local |-> g_local, merge |-> 0]

\* mutant: the clone is left as it is
PulledSkipped == g_local

\* the tree of the clone after a pull that succeeded
Pulled == PullOutcome.local

ApplyPull ==
    /\ g_local' = Pulled
    /\ g_base' = g_remote.index /\ g_baseRev' = g_rev
    /\ g_ahead' = g_ahead + PullOutcome.merge
    /\ g_made' = g_made + PullOutcome.merge
    /\ g_dir' = (g_dir \/ Pulled.manifest.exists)

\* mutant: one attempt more
ShouldRetryOnceMore(attempt) == attempt < MaxGitRetries

\* line 21: attempt < max_retries - 1
ShouldRetry(attempt) == attempt < MaxGitRetries - 1

\* line 18: func returned
Succeeded_ ==
    /\ g_result' = "returned" /\ g_pc' = "idle"
    /\ UNCHANGED <<g_attempt, g_sleeps>>

\* lines 19-26: func raised e; sleep and go round again, or raise
Failed(e) ==
    IF ShouldRetry(g_attempt)
    THEN /\ g_sleeps' = g_sleeps + 1
         /\ g_attempt' = g_attempt + 1
         /\ g_pc' = "invoke"
         /\ UNCHANGED g_result
    ELSE /\ g_result' = e /\ g_pc' = "idle"
         /\ UNCHANGED <<g_attempt, g_sleeps>>

\* a wrapped method is called
GitCall(op, list, mans) ==
    /\ g_pc = "idle" /\ g_ahead < MaxAhead /\ g_rev < MaxRev
    /\ op = "update_index_content" => mans = {}
    /\ op = "commit_manifest_file" => (list = <<>> /\ mans # {})
    /\ g_op' = op /\ g_index' = list /\ g_manifests' = mans
    /\ g_pc' = "invoke"
    /\ g_attempt' = 0 /\ g_calls' = 0 /\ g_sleeps' = 0 /\ g_made' = 0 /\ g_pushed' = 0
    /\ g_result' = "none" /\ g_returned' = <<>> /\ g_startRev' = g_rev
    /\ UNCHANGED <<wvars, dvars, fvars, bvars, xvars, ivars, tvars, g_remote, g_rev, g_local,
                   g_base, g_baseRev, g_ahead, g_dir>>

\* lines 16-18: func(*args, **kwargs) is invoked
Invoke ==
    /\ g_pc = "invoke"
    /\ g_calls' = g_calls + 1
    /\ g_pc' = IF g_op = "save_all_changes" THEN "pull" ELSE "write"
    /\ UNCHANGED <<wvars, dvars, fvars, bvars, xvars, ivars, tvars, g_remote, g_rev, g_local,
                   g_base, g_baseRev, g_ahead, g_dir, g_op, g_index, g_manifests,
                   g_attempt, g_sleeps, g_made, g_pushed, g_result, g_returned,
                   g_startRev>>

\* save_all_changes line 127
SavePull(ok) ==
    /\ g_pc = "pull"
    /\ IF ok /\ ~PullOutcome.conflict
       THEN /\ ApplyPull
            /\ g_pc' = "write"
            /\ UNCHANGED <<g_attempt, g_sleeps, g_result>>
       ELSE /\ ok = PullOutcome.conflict
            /\ Failed("GitCommandError")
            /\ UNCHANGED <<g_local, g_base, g_baseRev, g_ahead, g_made, g_dir>>
    /\ UNCHANGED <<wvars, dvars, fvars, bvars, xvars, ivars, tvars, g_remote, g_rev, g_op, g_index,
                   g_manifests, g_calls, g_pushed, g_returned, g_startRev>>

\* the files a method writes: versions.json (lines 82-83, 133-134), the
\* manifest (line 97), or the manifest only if manifests exists (lines 138-145)
WrittenTree ==
    IF g_op = "update_index_content"
    THEN [g_local EXCEPT !.index = IndexFile(g_index)]
    ELSE IF g_op = "commit_manifest_file"
    THEN [g_local EXCEPT !.manifest = ManifestFile10(ManifestArg)]
    ELSE [index |-> IndexFile(g_index),
          manifest |-> IF g_manifests # {} /\ g_dir
                       THEN ManifestFile10(ManifestArg) ELSE g_local.manifest]

\* the files are written, added and committed (lines 82-87, 94-101, 132-153);
\* paths_to_add always holds versions.json, so line 147 never returns
WriteAndCommit ==
    /\ g_pc = "write"
    /\ g_local' = WrittenTree
    /\ g_dir' = (g_dir \/ g_op = "commit_manifest_file")
    /\ g_ahead' = g_ahead + 1
    /\ g_made' = g_made + 1
    /\ g_pc' = "push"
    /\ UNCHANGED <<wvars, dvars, fvars, bvars, xvars, ivars, tvars, g_remote, g_rev, g_base,
                   g_baseRev, g_op, g_index, g_manifests, g_attempt, g_calls,
                   g_sleeps, g_pushed, g_result, g_returned, g_startRev>>

\* origin.push() (lines 88, 102, 154): "ok" origin takes the commits; "error"
\* push raises; "silent" nothing reaches origin and push returns its error
\* flags, which nobody reads.  A push origin rejects (the branch has moved) is
\* always silent.
PushOutcomes == {"ok", "error", "silent"}

Push(outcome) ==
    /\ g_pc = "push"
    /\ g_rev # g_baseRev => outcome = "silent"
    /\ IF outcome = "ok"
       THEN /\ g_remote' = g_local
            /\ g_rev' = g_rev + 1 /\ g_baseRev' = g_rev + 1
            /\ g_base' = g_local.index
            /\ g_pushed' = g_pushed + g_ahead
            /\ g_ahead' = 0
            /\ Succeeded_
       ELSE /\ IF outcome = "silent" THEN Succeeded_ ELSE Failed("GitCommandError")
            /\ UNCHANGED <<g_remote, g_rev, g_baseRev, g_base, g_pushed, g_ahead>>
    /\ UNCHANGED <<wvars, dvars, fvars, bvars, xvars, ivars, tvars, g_local, g_dir, g_op, g_index,
                   g_manifests, g_calls, g_made, g_returned, g_startRev>>

\* get_index_content is called (not wrapped by git_retry)
GitGetIndex ==
    /\ g_pc = "idle"
    /\ g_op' = "get_index_content" /\ g_index' = <<>> /\ g_manifests' = {}
    /\ g_pc' = "getpull"
    /\ g_attempt' = 0 /\ g_calls' = 0 /\ g_sleeps' = 0 /\ g_made' = 0 /\ g_pushed' = 0
    /\ g_result' = "none" /\ g_returned' = <<>> /\ g_startRev' = g_rev
    /\ UNCHANGED <<wvars, dvars, fvars, bvars, xvars, ivars, tvars, g_remote, g_rev, g_local,
                   g_base, g_baseRev, g_ahead, g_dir>>

\* line 70
GitPullForRead(ok) ==
    /\ g_pc = "getpull"
    /\ IF ok /\ ~PullOutcome.conflict
       THEN /\ ApplyPull
            /\ g_pc' = "read"
            /\ UNCHANGED g_result
       ELSE /\ ok = PullOutcome.conflict
            /\ g_result' = "GitCommandError" /\ g_pc' = "idle"
            /\ UNCHANGED <<g_local, g_base, g_baseRev, g_ahead, g_made, g_dir>>
    /\ UNCHANGED <<wvars, dvars, fvars, bvars, xvars, ivars, tvars, g_remote, g_rev, g_op, g_index,
                   g_manifests, g_attempt, g_calls, g_sleeps, g_pushed, g_returned,
                   g_startRev>>

\* lines 71-75: [] when versions.json does not exist, else its content
GitReadIndex ==
    /\ g_pc = "read"
    /\ g_returned' = IF g_local.index.exists THEN g_local.index.content ELSE <<>>
    /\ g_result' = "returned" /\ g_pc' = "idle"
    /\ UNCHANGED <<wvars, dvars, fvars, bvars, xvars, ivars, tvars, g_remote, g_rev, g_local,
                   g_base, g_baseRev, g_ahead, g_dir, g_op, g_index, g_manifests,
                   g_attempt, g_calls, g_sleeps, g_made, g_pushed, g_startRev>>

\* another uploader pushes a new versions.json to origin
OtherPush(list) ==
    /\ g_rev < MaxRev
    /\ IndexFile(list) # g_remote.index
    /\ g_remote' = [g_remote EXCEPT !.index = IndexFile(list)]
    /\ g_rev' = g_rev + 1
    /\ UNCHANGED <<wvars, dvars, fvars, bvars, xvars, ivars, tvars, g_local, g_base, g_baseRev,
                   g_ahead, g_dir, g_op, g_index, g_manifests, g_pc, g_attempt,
                   g_calls, g_sleeps, g_made, g_pushed, g_result, g_returned,
                   g_startRev>>

InitGit ==
    /\ WorkflowIdle /\ w_commitParams = GitHubGitCommitParams
    /\ DownloadIdle
    /\ LauncherIdle
    /\ InstallIdle /\ LaterIdle
    /\ \E t \in {EmptyTree, ReleasedTree} : GitStart(t)

NextGit ==
    \/ \E op \in RetriedOps, list \in IndexLists, mans \in ManifestUpdates :
           GitCall(op, list, mans)
    \/ Invoke
    \/ \E ok \in BOOLEAN : SavePull(ok)
    \/ WriteAndCommit
    \/ \E outcome \in PushOutcomes : Push(outcome)
    \/ GitGetIndex
    \/ \E ok \in BOOLEAN : GitPullForRead(ok)
    \/ GitReadIndex
    \/ \E list \in IndexLists : OtherPush(list)

SpecGit == InitGit /\ [][NextGit]_vars

----------------------------------------------------------------------------
(* Launcher: App._start_installation (src/launcher/gui/main_window.py) *)

\* src/launcher/core/models.py 8-26: the attributes of a ReleaseInfo
ReleaseInfoFields ==
    {"version", "manifest_urls", "download_urls", "latest", "profiler",
     "release_notes", "archive_sha256", "upload_date", "files"}

\* src/launcher/core/network.py 15-259: the methods of NetworkManager
NetworkManagerMethods ==
    {"fetch_versions", "find_latest_version", "download_file_with_fallback",
     "verify_sha256", "extract_archive", "_get_sorted_urls", "fetch_manifest",
     "fetch_all_release_info"}

\* mutant: the downloaded file is left in place
UnlinkedSkipped(hasPath) == d_tempFile

\* lines 266-271: the downloaded file is removed when download_path is bound
\* to a path
Unlinked(hasPath) == IF hasPath THEN FALSE ELSE d_tempFile

\* lines 260-271: the flow is left, with exception e or by a return
Finally(status, e, hasPath) ==
    /\ i_status' = status /\ i_error' = e
    /\ d_tempFile' = Unlinked(hasPath)
    /\ i_pc' = "done"

\* lines 181-206: the release selected and the game path are looked up
StartInstallation(found, configured) ==
    /\ i_pc = "idle"
    /\ IF ~found THEN Finally("Selected version not found.", "none", FALSE)
       ELSE IF ~configured THEN Finally("Game path not configured.", "none", FALSE)
       ELSE /\ i_pc' = "backup" /\ i_status' = "Backing up 'bin' directory..."
            /\ UNCHANGED <<i_error, d_tempFile>>
    /\ UNCHANGED <<wvars, fvars, bvars, xvars, gvars, tvars, d_urls, d_pc, d_i, d_attempt,
                   d_tries, d_result, d_known, d_progress, d_file,
                   d_last, d_decreased, i_corrupt, i_verified,
                   i_extracting, i_marker>>

\* line 205: create_backup(version=backup_version), the whole of bin
InstallBackup(version) ==
    /\ i_pc = "backup" /\ b_op = "none"
    /\ CreateBackup(version, <<>>)

\* lines 205-210: create_backup has returned or raised
BackupReturned ==
    /\ i_pc = "backup" /\ b_op = "create" /\ b_pc = "idle"
    /\ IF b_error # "none"
       THEN Finally("Installation failed", b_error, FALSE)
       ELSE /\ i_pc' = "download" /\ i_status' = "Downloading"
            /\ UNCHANGED <<i_error, d_tempFile>>
    /\ UNCHANGED <<wvars, fvars, bvars, xvars, gvars, tvars, d_urls, d_pc, d_i, d_attempt,
                   d_tries, d_result, d_known, d_progress, d_file,
                   d_last, d_decreased, i_corrupt, i_verified,
                   i_extracting, i_marker>>

\* lines 216-220: download_file_with_fallback(target_release.download_urls)
InstallDownload(urls) ==
    /\ i_pc = "download" /\ d_result = "none"
    /\ StartDownload(urls)

\* lines 216-228: the download has returned a path or None, or raised
DownloadReturned(corrupt) ==
    /\ i_pc = "download" /\ d_pc = "idle" /\ d_result # "none"
    /\ IF d_result = "None"
       THEN Finally("Download failed from all sources.", "none", FALSE)
            /\ UNCHANGED i_corrupt
       ELSE IF d_result # "path"
       THEN Finally("Installation failed", d_result, FALSE) /\ UNCHANGED i_corrupt
       ELSE /\ i_pc' = "verify" /\ i_status' = "Verifying file integrity..."
            /\ i_corrupt' = corrupt
            /\ UNCHANGED <<i_error, d_tempFile>>
    /\ UNCHANGED <<wvars, fvars, bvars, xvars, gvars, tvars, d_urls, d_pc, d_i, d_attempt,
                   d_tries, d_result, d_known, d_progress, d_file,
                   d_last, d_decreased, i_verified,
                   i_extracting, i_marker>>

\* network.py 114-134: the hash of the file is the expected one
Verify == IF i_corrupt THEN "false" ELSE "true"

\* lines 231-271: target_release.zip_sha256 is read and verify_sha256 called;
\* extract_zip and the writing of version.json follow when it returned True
VerifyAndInstall ==
    /\ i_pc = "verify"
    /\ IF "zip_sha256" \notin ReleaseInfoFields
       THEN /\ Finally("Installation failed", "AttributeError", TRUE)
            /\ UNCHANGED <<i_verified, i_extracting, i_marker>>
       ELSE /\ i_verified' = Verify
            /\ IF Verify = "false"
               THEN /\ Finally("Hash mismatch! Download may be corrupt.", "none", TRUE)
                    /\ UNCHANGED <<i_extracting, i_marker>>
               ELSE IF "extract_zip" \notin NetworkManagerMethods
               THEN /\ Finally("Installation failed", "AttributeError", TRUE)
                    /\ UNCHANGED <<i_extracting, i_marker>>
               ELSE /\ i_extracting' = TRUE /\ i_marker' = TRUE
                    /\ Finally("Installation complete!", "none", TRUE)
    /\ UNCHANGED <<wvars, fvars, bvars, xvars, gvars, tvars, d_urls, d_pc, d_i, d_attempt,
                   d_tries, d_result, d_known, d_progress, d_file,
                   d_last, d_decreased, i_corrupt>>

InitInstall ==
    /\ WorkflowIdle /\ w_commitParams = GitHubGitCommitParams
    /\ DownloadIdle
    /\ FetchIdle
    /\ RestIdle
    /\ ExtractIdle
    /\ \E root \in BackupRoots : BackupStart(InstalledFiles({FileA, FileB}), root)

NextInstall ==
    \/ \E found \in BOOLEAN, configured \in BOOLEAN : StartInstallation(found, configured)
    \/ \E version \in BackupVersions : InstallBackup(version)
    \/ \E ok \in BOOLEAN : WriteMeta(ok)
    \/ \E ok \in BOOLEAN : OpenArchive(ok)
    \/ \E ok \in BOOLEAN : AddFile(ok)
    \/ \E ok \in BOOLEAN : CloseArchive(ok)
    \/ BackupReturned
    \/ \E urls \in DictsOver(ProviderNames) : InstallDownload(urls)
    \/ \E known \in BOOLEAN : AttemptSucceeds(known)
    \/ \E known \in BOOLEAN, opened \in BOOLEAN, k \in 0..BodyChunks :
           AttemptFails(known, opened, k)
    \/ AttemptRaises
    \/ AllUrlsFailed
    \/ \E corrupt \in BOOLEAN : DownloadReturned(corrupt)
    \/ VerifyAndInstall

SpecInstall == InitInstall /\ [][NextInstall]_vars

----------------------------------------------------------------------------
(* Launcher: the buttons and the worker threads (src/launcher/gui/main_window.py) *)

\* the App window takes clicks: no BackupWindow holds the grab (line 352)
MainWindowActive == ~u_window

\* mutant: Manage Backups does nothing while an install worker runs
BackupWindowOpenableIdleOnly == MainWindowActive /\ u_installing = 0

\* lines 329-334, 350-352: backup_button is created enabled and no line
\* changes its state
BackupWindowOpenable == MainWindowActive

\* lines 363-365: action_button is disabled and the install worker started
OnActionButtonClick ==
    /\ MainWindowActive /\ u_action
    /\ u_action' = FALSE
    /\ u_installing' = u_installing + 1
    /\ UNCHANGED <<wvars, dvars, fvars, bvars, xvars, gvars, ivars, mvars, pvars, u_window,
                   u_buttons, u_restoring, u_queue>>

\* lines 263-266: the install worker ends; the enabling of action_button is
\* queued
InstallWorkerEnds ==
    /\ u_installing > 0 /\ Len(u_queue) < MaxQueue
    /\ u_installing' = u_installing - 1
    /\ u_queue' = Append(u_queue, "action_button")
    /\ UNCHANGED <<wvars, dvars, fvars, bvars, xvars, gvars, ivars, mvars, pvars, u_action,
                   u_window, u_buttons, u_restoring>>

\* lines 350-352, 368-396: a new BackupWindow with enabled buttons takes the grab
OpenBackupWindow ==
    /\ BackupWindowOpenable
    /\ u_window' = TRUE /\ u_buttons' = TRUE
    /\ UNCHANGED <<wvars, dvars, fvars, bvars, xvars, gvars, ivars, mvars, pvars, u_action,
                   u_installing, u_restoring, u_queue>>

\* the window manager's close button: the BackupWindow is destroyed, and
\* with it the buttons its workers' callbacks would enable
CloseBackupWindow ==
    /\ u_window
    /\ u_window' = FALSE /\ u_buttons' = FALSE
    /\ u_restoring' = [k \in 1..Len(u_restoring) |-> <<u_restoring[k][1], FALSE>>]
    /\ u_queue' = [k \in 1..Len(u_queue) |->
                      IF u_queue[k] = "buttons" THEN "destroyed" ELSE u_queue[k]]
    /\ UNCHANGED <<wvars, dvars, fvars, bvars, xvars, gvars, ivars, mvars, pvars, u_action,
                   u_installing>>

\* lines 465-473: the buttons of the window are disabled and the restore
\* worker started
StartRestore(name) ==
    /\ u_window /\ u_buttons
    /\ Len(u_restoring) < MaxWorkers
    /\ u_buttons' = FALSE
    /\ u_restoring' = Append(u_restoring, <<name, TRUE>>)
    /\ UNCHANGED <<wvars, dvars, fvars, bvars, xvars, gvars, ivars, mvars, pvars, u_action,
                   u_installing, u_window, u_queue>>

\* lines 475-485: a restore worker ends; the enabling of the buttons is queued
RestoreWorkerEnds(n) ==
    /\ n \in 1..Len(u_restoring) /\ Len(u_queue) < MaxQueue
    /\ u_restoring' = [k \in 1..(Len(u_restoring) - 1) |->
                          IF k < n THEN u_restoring[k] ELSE u_restoring[k + 1]]
    /\ u_queue' = Append(u_queue, IF u_restoring[n][2] THEN "buttons" ELSE "destroyed")
    /\ UNCHANGED <<wvars, dvars, fvars, bvars, xvars, gvars, ivars, mvars, pvars, u_action,
                   u_installing, u_window, u_buttons>>

\* lines 83-96: the main loop runs the callback at the head of gui_queue; a
\* callback of a destroyed window enables nothing
ProcessGuiQueue ==
    /\ u_queue # <<>>
    /\ u_queue' = Tail(u_queue)
    /\ IF Head(u_queue) = "action_button"
       THEN u_action' = TRUE /\ UNCHANGED u_buttons
       ELSE IF Head(u_queue) = "buttons"
       THEN u_buttons' = TRUE /\ UNCHANGED u_action
       ELSE UNCHANGED <<u_action, u_buttons>>
    /\ UNCHANGED <<wvars, dvars, fvars, bvars, xvars, gvars, ivars, mvars, pvars, u_installing,
                   u_window, u_restoring>>

InitGui ==
    /\ WorkflowIdle /\ w_commitParams = GitHubGitCommitParams
    /\ DownloadIdle
    /\ LauncherIdle
    /\ RestIdle

NextGui ==
    \/ OnActionButtonClick
    \/ InstallWorkerEnds
    \/ OpenBackupWindow
    \/ CloseBackupWindow
    \/ \E name \in BackupNames : StartRestore(name)
    \/ \E n \in 1..MaxWorkers : RestoreWorkerEnds(n)
    \/ ProcessGuiQueue

SpecGui == InitGui /\ [][NextGui]_vars

----------------------------------------------------------------------------
(* Uploader: the Manage Releases tab (src/uploader/gui/main_window.py) *)

\* manifest_urls of an entry: from the index provider, or from it and a mirror
ManagedUrls ==
    { {<<IndexProviderName, "u1">>},
      {<<IndexProviderName, "u1">>, <<CatboxName, "u2">>} }

\* an entry as run writes it: latest only on a build that is no profiler build
ManagedEntry(v, murls, prof, latest) ==
    IF latest /\ ~prof
    THEN [version |-> v, manifest_urls |-> murls, download_urls |-> {},
          profiler |-> prof, latest |-> TRUE]
    ELSE [version |-> v, manifest_urls |-> murls, download_urls |-> {},
          profiler |-> prof]

\* at most one entry of idx is flagged latest
AtMostOneLatest(idx) ==
    \A i, j \in 1..Len(idx) : HasLatest(idx[i]) /\ HasLatest(idx[j]) => i = j

\* the indexes the tab can find: at most one entry flagged latest
ManagedIndexes ==
    {idx \in UNION {[1..Len(vs) -> {ManagedEntry(v, murls, prof, latest) :
                                        v \in {"1.0", "1.1"}, murls \in ManagedUrls,
                                        prof \in BOOLEAN, latest \in BOOLEAN}] :
                        vs \in IndexLists} :
        /\ \A i \in 1..Len(idx) : idx[i].version = (CHOOSE vs \in IndexLists : Len(vs) = Len(idx))[i]
        /\ AtMostOneLatest(idx)}

\* the manifest URLs the fetch can fail on: <<position in the index, provider>>
ManifestSlots == (1..2) \X {IndexProviderName, CatboxName}

\* dict order of manifest_urls.values(): the index provider's URL was put in
\* last by run, mirrors before it
UrlOrder(murls) ==
    LET mirrors == {kv \in murls : kv[1] # IndexProviderName}
        own == {kv \in murls : kv[1] = IndexProviderName}
        seqOf(S) == IF S = {} THEN <<>> ELSE <<CHOOSE kv \in S : TRUE>>
    IN seqOf(mirrors) \o seqOf(own)

\* lines 1061-1127: the row built from one fetched manifest
Row(entry) ==
    [version_data |-> entry, latest_var |-> HasLatest(entry),
     profiler_var |-> entry.profiler]

\* lines 979-995: one future per manifest URL of the entry; a row for every
\* future whose result() does not raise
RowsOf(entry, i, failed) ==
    LET urls == UrlOrder(entry.manifest_urls) IN
    LET ok == SelectSeq(urls, LAMBDA kv : <<i, kv[1]>> \notin failed) IN
    [k \in 1..Len(ok) |-> Row(entry)]

RECURSIVE AllRows(_, _, _)
AllRows(idx, i, failed) ==
    IF i > Len(idx) THEN <<>>
    ELSE RowsOf(idx[i], i, failed) \o AllRows(idx, i + 1, failed)

\* lines 972-1000, 1016-1135: versions.json is read, the manifests are
\* fetched and the table is rebuilt
FetchReleases(idx, failed) ==
    /\ m_pc = "idle"
    /\ m_index' = idx
    /\ m_rows' = AllRows(idx, 1, failed)
    /\ m_edited' = FALSE
    /\ m_pc' = "shown"
    /\ UNCHANGED <<wvars, dvars, fvars, bvars, xvars, gvars, ivars, uvars, pvars,
                   m_saved, m_updates>>

\* lines 1149-1156: a latest checkbox is clicked; checking it unchecks the
\* others
OnLatestCheckboxChange(k) ==
    /\ m_pc = "shown" /\ k \in 1..Len(m_rows)
    /\ m_rows' = [n \in 1..Len(m_rows) |->
                    IF n = k THEN [m_rows[n] EXCEPT !.latest_var = ~@]
                    ELSE IF ~m_rows[k].latest_var
                    THEN [m_rows[n] EXCEPT !.latest_var = FALSE]
                    ELSE m_rows[n]]
    /\ m_edited' = TRUE
    /\ UNCHANGED <<wvars, dvars, fvars, bvars, xvars, gvars, ivars, uvars, pvars,
                   m_pc, m_index, m_saved, m_updates>>

\* lines 1094-1101, 1158-1160: a profiler checkbox is clicked
OnProfilerCheckboxChange(k) ==
    /\ m_pc = "shown" /\ k \in 1..Len(m_rows)
    /\ m_rows' = [m_rows EXCEPT ![k].profiler_var = ~@]
    /\ m_edited' = TRUE
    /\ UNCHANGED <<wvars, dvars, fvars, bvars, xvars, gvars, ivars, uvars, pvars,
                   m_pc, m_index, m_saved, m_updates>>

\* lines 1190-1202: the entry rebuilt from a row
SavedEntry(row) ==
    LET e == row.version_data IN
    IF row.latest_var /\ ~row.profiler_var
    THEN [k \in DOMAIN e \cup {"latest", "profiler"} |->
             IF k = "latest" THEN TRUE
             ELSE IF k = "profiler" THEN row.profiler_var ELSE e[k]]
    ELSE [k \in (DOMAIN e \ {"latest"}) \cup {"profiler"} |->
             IF k = "profiler" THEN row.profiler_var ELSE e[k]]

\* lines 1176-1187: the manifests whose profiler flag was changed
ChangedManifests(rows) ==
    {<<rows[n].version_data.version, rows[n].profiler_var>> :
        n \in {k \in 1..Len(rows) : rows[k].profiler_var # rows[k].version_data.profiler}}

\* lines 1162-1206: the lists handed to save_all_changes
SaveReleaseChanges ==
    /\ m_pc = "shown"
    /\ m_saved' = [n \in 1..Len(m_rows) |-> SavedEntry(m_rows[n])]
    /\ m_updates' = ChangedManifests(m_rows)
    /\ m_pc' = "saved"
    /\ UNCHANGED <<wvars, dvars, fvars, bvars, xvars, gvars, ivars, uvars, pvars,
                   m_index, m_rows, m_edited>>

InitManage ==
    /\ WorkflowIdle /\ w_commitParams = GitHubGitCommitParams
    /\ DownloadIdle
    /\ LauncherIdle
    /\ RestIdle

NextManage ==
    \/ \E idx \in ManagedIndexes, failed \in SUBSET ManifestSlots : FetchReleases(idx, failed)
    \/ \E k \in 1..Cardinality(ManifestSlots) : OnLatestCheckboxChange(k)
    \/ \E k \in 1..Cardinality(ManifestSlots) : OnProfilerCheckboxChange(k)
    \/ SaveReleaseChanges

SpecManage == InitManage /\ [][NextManage]_vars

----------------------------------------------------------------------------
(* Uploader: GitHubReleaseProvider (src/uploader/providers/github_release.py) *)

\* the repositories a run can meet: empty; with commits; with the tag; with
\* the tag and its release
ReleaseRepos ==
    {<<FALSE, FALSE, FALSE>>, <<TRUE, FALSE, FALSE>>, <<TRUE, TRUE, FALSE>>,
     <<TRUE, TRUE, TRUE>>}

\* the call ends with exception e
CallFails(t, e) ==
    /\ p_pc' = [p_pc EXCEPT ![t] = "failed"]
    /\ p_err' = [p_err EXCEPT ![t] = e]

\* lines 35-37: upload_asset is called and calls _initialize_repo
UploadAsset(t) ==
    /\ p_pc[t] = "idle"
    /\ p_pc' = [p_pc EXCEPT ![t] = "check"]
    /\ UNCHANGED <<wvars, dvars, fvars, bvars, xvars, gvars, ivars, uvars, mvars,
                   p_err, p_lock, p_commits, p_tag, p_release, p_made, p_assets>>

\* lines 15-19: get_commits() raises 409 on an empty repository
CheckCommits(t) ==
    /\ p_pc[t] = "check"
    /\ p_pc' = [p_pc EXCEPT ![t] = IF p_commits THEN "wait" ELSE "create"]
    /\ UNCHANGED <<wvars, dvars, fvars, bvars, xvars, gvars, ivars, uvars, mvars,
                   p_err, p_lock, p_commits, p_tag, p_release, p_made, p_assets>>

\* lines 22-31: create_file(".gitkeep") makes the initial commit; GitHub
\* refuses it with 422 when the file is there already
CreateInitialCommit(t) ==
    /\ p_pc[t] = "create"
    /\ IF p_commits
       THEN CallFails(t, "GithubException 422") /\ UNCHANGED p_commits
       ELSE /\ p_commits' = TRUE
            /\ p_pc' = [p_pc EXCEPT ![t] = "wait"]
            /\ UNCHANGED p_err
    /\ UNCHANGED <<wvars, dvars, fvars, bvars, xvars, gvars, ivars, uvars, mvars,
                   p_lock, p_tag, p_release, p_made, p_assets>>

\* line 40: with self._release_lock
AcquireLock(t) ==
    /\ p_pc[t] = "wait" /\ p_lock = "free"
    /\ p_lock' = t
    /\ p_pc' = [p_pc EXCEPT ![t] = "tag"]
    /\ UNCHANGED <<wvars, dvars, fvars, bvars, xvars, gvars, ivars, uvars, mvars,
                   p_err, p_commits, p_tag, p_release, p_made, p_assets>>

\* lines 41-52: the tag is created when get_git_ref answers 404
EnsureTag(t) ==
    /\ p_pc[t] = "tag" /\ p_lock = t
    /\ p_tag' = TRUE
    /\ p_made' = IF p_tag THEN p_made ELSE [p_made EXCEPT !.tag = @ + 1]
    /\ p_pc' = [p_pc EXCEPT ![t] = "release"]
    /\ UNCHANGED <<wvars, dvars, fvars, bvars, xvars, gvars, ivars, uvars, mvars,
                   p_err, p_lock, p_commits, p_release, p_assets>>

\* lines 54-69: the release is created when get_release answers 404; the
\* lock is released
EnsureRelease(t) ==
    /\ p_pc[t] = "release" /\ p_lock = t
    /\ p_release' = TRUE
    /\ p_made' = IF p_release THEN p_made ELSE [p_made EXCEPT !.release = @ + 1]
    /\ p_lock' = "free"
    /\ p_pc' = [p_pc EXCEPT ![t] = "upload"]
    /\ UNCHANGED <<wvars, dvars, fvars, bvars, xvars, gvars, ivars, uvars, mvars,
                   p_err, p_commits, p_tag, p_assets>>

\* lines 71-74: release.upload_asset(file_path)
UploadToRelease(t) ==
    /\ p_pc[t] = "upload"
    /\ p_assets' = p_assets \cup {t}
    /\ p_pc' = [p_pc EXCEPT ![t] = "done"]
    /\ UNCHANGED <<wvars, dvars, fvars, bvars, xvars, gvars, ivars, uvars, mvars,
                   p_err, p_lock, p_commits, p_tag, p_release, p_made>>

InitRelease ==
    /\ WorkflowIdle /\ w_commitParams = GitHubGitCommitParams
    /\ DownloadIdle
    /\ LauncherIdle
    /\ GitIdle /\ InstallIdle /\ GuiIdle /\ ManageIdle
    /\ \E repo \in ReleaseRepos : ReleaseStart(repo)

NextRelease ==
    \/ \E t \in UploadCalls : UploadAsset(t)
    \/ \E t \in UploadCalls : CheckCommits(t)
    \/ \E t \in UploadCalls : CreateInitialCommit(t)
    \/ \E t \in UploadCalls : AcquireLock(t)
    \/ \E t \in UploadCalls : EnsureTag(t)
    \/ \E t \in UploadCalls : EnsureRelease(t)
    \/ \E t \in UploadCalls : UploadToRelease(t)

SpecRelease == InitRelease /\ [][NextRelease]_vars

----------------------------------------------------------------------------
(* Launcher: selection of the latest release *)

\* _check_for_updates: next((r for r in releases if r.latest), None), with
\* releases[0] as fallback; 0 when there is no release
SelectLatestRelease(releases) ==
    IF releases = <<>> THEN 0
    ELSE IF \E i \in 1..Len(releases) : HasLatest(releases[i])
         THEN CHOOSE i \in 1..Len(releases) :
                 /\ HasLatest(releases[i])
                 /\ \A j \in 1..(i-1) : ~HasLatest(releases[j])
         ELSE 1

----------------------------------------------------------------------------
(* Properties of ReleaseWorkflow.run *)

Range(s) == {s[i] : i \in 1..Len(s)}
Logged(msg) == msg \in Range(log)
\* every occurrence of b in the log has an occurrence of a before it
Before(a, b) ==
    \A j \in 1..Len(log) : log[j] = b => \E i \in 1..(j-1) : log[i] = a

LatestCount(idx) == Cardinality({i \in 1..Len(idx) : HasLatest(idx[i])})

\* update_index_content of the current run has returned
Published == Logged("Version index updated")
\* run has returned or raised to its caller
Returned == w_pc = "idle" /\ log # <<>>
\* providers whose upload of file f returned a URL in the current run
Succeeded(f) == {d[1] : d \in {x \in w_done : x[2] = f /\ x[3]}}
\* the upload stage is over: the executor block was left
UploadStageOver ==
    /\ Logged("Starting parallel asset uploads")
    /\ w_pc \notin {"submit", "uploading"}

\* C1: at most one entry of the index has latest=true, and right after the
\* index update of a non-profiler release that entry is the new entry.
C1_SingleLatest ==
    /\ LatestCount(index) <= 1
    /\ (Published /\ ~w_profiler) =>
          /\ LatestCount(index) = 1
          /\ HasLatest(index[1])
          /\ index[1].version = w_version
          /\ index[1].download_urls = download_urls

C1_Witness ==
    /\ Published /\ ~w_profiler
    /\ \E i \in 1..Len(indexAtStart) : HasLatest(indexAtStart[i])
    /\ \E i \in 1..Len(indexAtStart) : indexAtStart[i].profiler

\* C2: when no archive upload yields a URL (all fail, or no provider is
\* selected) the run ends with an error, commit_manifest_file and
\* update_index_content are never called and the index is unchanged.
C2_NoArchiveAborts ==
    (UploadStageOver /\ Succeeded(ArchiveFile) = {}) =>
        /\ w_error \in {"RuntimeError", "ValueError"}
        /\ w_pc \in {"cleanup", "idle"}
        /\ ~Logged("call commit_manifest_file")
        /\ ~Logged("call update_index_content")
        /\ index = indexAtStart

C2_Witness ==
    /\ Returned /\ w_error = "RuntimeError"
    /\ Succeeded(ManifestFile) # {}
    /\ indexAtStart # <<>>

\* C3: when at least one archive upload succeeds and the index repository
\* itself does not fail, the run ends without error and has published an
\* entry whose download_urls keys are the providers whose archive upload
\* succeeded.
C3_PartialFailureCompletes ==
    (Returned /\ Succeeded(ArchiveFile) # {} /\ w_error # "GitCommandError") =>
        /\ w_error = "none"
        /\ Published
        /\ Keys(index[1].download_urls) = Succeeded(ArchiveFile)

\* C4: a run that created its temporary directory has removed it when control
\* is back at the caller, and a failed stage's error reaches the caller after
\* the removal.
C4_TempDirRemoved ==
    /\ w_pc = "idle" => ~tempDir
    /\ Returned =>
          /\ Logged("Created temporary directory") => Logged("Cleanup complete")
          /\ (w_error = "none") <=> (log[Len(log)] = "Successfully completed release")
          /\ w_error # "none" /\ Logged("Cleanup complete")
                => log[Len(log)] = "Cleanup complete"

C4_Witness ==
    /\ Returned /\ w_error = "GitCommandError" /\ ~tempDir
    /\ Logged("call update_index_content")

\* C5: the stages of a run happen in a fixed order: archive before hash,
\* manifest before any upload task, commit_manifest_file after every upload
\* task, update_index_content after the commit returned its URL, the success
\* message after index update and cleanup.
C5_StageOrder ==
    /\ Before("Archive created successfully", "Calculated SHA256 hash")
    /\ (w_tasks # {} \/ w_done # {}) => Logged("manifest.json created successfully")
    /\ Logged("call commit_manifest_file") =>
          /\ w_tasks = {}
          /\ {<<d[1], d[2]>> : d \in w_done} = UploadTasks(w_providers)
    /\ Before("Manifest committed", "call update_index_content")
    /\ Logged("call update_index_content") => manifest_index_url # "None"
    /\ Before("Version index updated", "Successfully completed release")
    /\ Before("Cleanup complete", "Successfully completed release")

C5_Witness ==
    /\ Returned /\ log[Len(log)] = "Successfully completed release"
    /\ Len(w_providers) = 2

\* C6: the published entry's manifest_urls has a key for every asset provider
\* other than "GitHub Releases" whose manifest upload succeeded, no key
\* "GitHub Releases", and the index provider's name mapped to the URL
\* commit_manifest_file returned.
C6_ManifestUrls ==
    Published =>
        LET m == index[1].manifest_urls IN
        /\ Keys(m) = (Succeeded(ManifestFile) \ {GitHubReleasesName})
                        \cup {IndexProviderName}
        /\ GitHubReleasesName \notin Keys(m)
        /\ <<IndexProviderName, manifest_index_url>> \in m
        /\ manifest_index_url = Url(IndexProviderName, "manifests", w_version)
        /\ \A p \in Succeeded(ManifestFile) \ {GitHubReleasesName} :
              <<p, Url(p, ManifestFile, w_version)>> \in m

C6_Witness ==
    /\ Published
    /\ CatboxName \in Keys(index[1].manifest_urls)
    /\ GitHubReleasesName \in Range(w_providers)

\* C7: the index handed to update_index_content is the new entry followed by
\* the entries read by get_index_content in their order; no entry is dropped
\* and, apart from latest (removed only for a non-profiler release), no field
\* of an old entry changes.
C7_IndexFrame ==
    Published =>
        /\ Len(index) = Len(indexAtStart) + 1
        /\ index[1].version = w_version
        /\ \A i \in 1..Len(indexAtStart) :
              /\ PopLatest(index[i + 1]) = PopLatest(indexAtStart[i])
              /\ w_profiler => index[i + 1] = indexAtStart[i]

C7_Witness ==
    /\ Published /\ ~w_profiler
    /\ Len(indexAtStart) = 2
    /\ indexAtStart[1].version # indexAtStart[2].version
    /\ HasLatest(indexAtStart[2])

----------------------------------------------------------------------------
(* Properties of download_file_with_fallback *)

\* the order the claim prescribes: "GitHub Git" first, the rest in map order
PreferenceOrder(urls) ==
    LET keys == [i \in 1..Len(urls) |-> urls[i][1]]
        IsPreferred(k) == k = PreferredProvider
        IsOther(k) == k # PreferredProvider
    IN SelectSeq(keys, IsPreferred) \o SelectSeq(keys, IsOther)

\* attempts of provider p among the first n attempts
TriesOf(p, n) == {k \in 1..n : d_tries[k][1] = p}

\* C10: providers are tried "GitHub Git" first, then in map order; a provider
\* is tried only after each earlier one failed exactly 3 times, none is tried
\* more than 3 times, nothing is tried after a success, and a call makes at
\* most 3 x (number of providers) attempts.
C10_FallbackOrder ==
    LET order == PreferenceOrder(d_urls) IN
    /\ \A k \in 1..Len(d_tries) :
          \E j \in 1..Len(order) :
             /\ order[j] = d_tries[k][1]
             /\ \A h \in 1..(j-1) :
                   /\ Cardinality(TriesOf(order[h], k - 1)) = MaxRetries
                   /\ \A t \in TriesOf(order[h], k - 1) :
                         d_tries[t][2] = "RequestException"
    /\ \A p \in ProviderNames : Cardinality(TriesOf(p, Len(d_tries))) <= MaxRetries
    /\ \A k \in 1..(Len(d_tries) - 1) : d_tries[k][2] = "RequestException"
    /\ Len(d_tries) <= MaxRetries * Len(d_urls)
    /\ (d_pc = "loop" /\ Len(d_tries) = MaxRetries * Len(d_urls)) => ENABLED AllUrlsFailed

C10_Witness ==
    /\ d_pc = "idle" /\ d_result = "path"
    /\ Len(d_urls) >= 2 /\ d_urls[2][1] = PreferredProvider
    /\ Len(d_tries) = 2 * MaxRetries + 1
    /\ d_tries[Len(d_tries)] = <<d_urls[Len(d_urls)][1], "ok">>

\* C11: a call in which no attempt succeeded (also with an empty urls map)
\* has removed its temp file and returns None; no failed attempt's exception
\* reaches the caller.
C11_AllFailReturnsNone ==
    (d_pc = "idle" /\ d_result # "none"
        /\ \A k \in 1..Len(d_tries) : d_tries[k][2] # "ok") =>
        /\ d_result = "None"
        /\ ~d_tempFile

----------------------------------------------------------------------------
(* Properties of fetch_all_release_info and find_latest_version *)

\* the entries whose manifest was fetched, in index order
RECURSIVE FetchedInIndexOrder(_)
FetchedInIndexOrder(n) ==
    IF n = 0 THEN <<>>
    ELSE FetchedInIndexOrder(n - 1)
            \o (IF n \in f_ok THEN <<ReleaseInfo(f_versions[n])>> ELSE <<>>)

\* C12: whatever the completion order, fetch_all_release_info returns the
\* releases of the entries whose manifest was fetched, in index order, each
\* once.
C12_IndexOrderKept ==
    f_pc = "returned" => f_releases = FetchedInIndexOrder(Len(f_versions))

C12_Witness ==
    /\ f_pc = "returned" /\ Len(f_versions) = 3 /\ Len(f_releases) = 2
    /\ f_results[1][1] = 3 /\ f_results[2][1] = 1
    /\ f_versions[1] # f_versions[3]

\* C13: find_latest_version returns the first flagged entry, the first entry
\* when none is flagged, and None only for an empty list.
C13_FindLatestFallback ==
    f_latest # -1 =>
        f_latest = (IF \E i \in 1..Len(f_versions) : f_versions[i].latest
                    THEN CHOOSE i \in 1..Len(f_versions) :
                            /\ f_versions[i].latest
                            /\ \A j \in 1..(i - 1) : ~f_versions[j].latest
                    ELSE IF f_versions # <<>> THEN 1 ELSE 0)

----------------------------------------------------------------------------
(* Properties of BackupManager *)

AllBackupNames == BackupNames \cup {UnknownBackup}

\* the paths the members of a backup resolve to
Targets(name) == {MemberPath(m) : m \in Range(backups[name].members)}

\* C14: restore_backup writes only at paths strictly inside bin.
C14_WritesInsideBin ==
    \A path \in b_written : IsInside(path, BinPath)

\* C16: create_backup("initial") with the initial archive present returns at
\* once: launcher_backups and the game files are unchanged, no progress is
\* reported, and the one initial archive and sidecar are still there.
C16_InitialNoOp ==
    [][(backups[InitialBackup].hasArch
            /\ \E files \in FileLists : CreateBackup("initial", files)) =>
           /\ backups' = backups /\ fs' = fs
           /\ b_progress' = <<>>
           /\ b_pc' = "idle" /\ b_error' = "none"
           /\ backups'[InitialBackup].hasArch /\ backups'[InitialBackup].hasMeta]_vars

C16_Witness ==
    /\ b_op = "create" /\ b_name = InitialBackup /\ b_pc = "idle"
    /\ b_error = "none" /\ b_progress = <<>>
    /\ backups[InitialBackup].hasArch

\* C17: when create_backup has raised its I/O error, neither the archive nor
\* the sidecar of that backup exists.
C17_FailureCleansUp ==
    (b_op = "create" /\ b_pc = "idle" /\ b_error # "none") =>
        /\ b_error = "IOError"
        /\ ~backups[b_name].hasArch
        /\ ~backups[b_name].hasMeta

\* the failure came after a file was added, so after sidecar and archive
\* had been written
C17_Witness ==
    /\ b_op = "create" /\ b_pc = "idle" /\ b_error = "IOError"
    /\ b_progress # <<>>
    /\ backups[b_name] = Absent

\* C18: restore_backup for a name whose archive or sidecar is missing raises
\* FileNotFoundError and leaves the game files as they are.
C18_MissingBackupUntouched ==
    [][\A name \in AllBackupNames :
          ((~Stored(name).hasArch \/ ~Stored(name).hasMeta) /\ RestoreBackup(name)) =>
              /\ b_pc' = "idle" /\ b_error' = "FileNotFoundError"
              /\ fs' = fs /\ b_written' = {}]_vars

\* the archive is there, the sidecar is not
C18_Witness ==
    /\ b_op = "restore" /\ b_pc = "idle" /\ b_error = "FileNotFoundError"
    /\ Stored(b_name).hasArch /\ ~Stored(b_name).hasMeta
    /\ BinFiles(fs) # {}

\* C19: while members are extracted bin holds only what the restore wrote,
\* and after a successful restore bin holds exactly the files of the backup.
C19_RestoreReplacesBin ==
    /\ (b_op = "restore" /\ b_pc = "extract") => BinFiles(fs) \subseteq b_written
    /\ (b_op = "restore" /\ b_pc = "idle" /\ b_error = "none") =>
           BinFiles(fs) = BinFiles(Targets(b_name))

\* file b of the installation is gone, file a came from the backup
C19_Witness ==
    /\ b_op = "restore" /\ b_pc = "idle" /\ b_error = "none"
    /\ MemberPath(FileA) \in b_written
    /\ MemberPath(FileB) \notin fs

\* C20: delete_backup raises FileNotFoundError and changes nothing when the
\* archive is missing; otherwise archive and sidecar are gone afterwards,
\* also when the sidecar was missing before, and nothing else changed.
C20_DeleteFrame ==
    [][\A name \in AllBackupNames :
          DeleteBackup(name, "ok") =>
              /\ fs' = fs
              /\ IF ~Stored(name).hasArch
                 THEN b_error' = "FileNotFoundError" /\ backups' = backups
                 ELSE /\ b_error' = "none"
                      /\ backups'[name] = Absent
                      /\ \A n \in BackupNames \ {name} : backups'[n] = backups[n]]_vars

\* a backup was deleted while another one stays
C20_Witness ==
    /\ b_op = "delete" /\ b_pc = "idle" /\ b_error = "none"
    /\ backups[b_name] = Absent
    /\ \E n \in BackupNames : backups[n].hasArch

----------------------------------------------------------------------------
(* Properties of extract_archive *)

HasOutsideMember(members) ==
    \E k \in 1..Len(members) : ~IsInside(MemberPath(members[k]), BinPath)

\* C15: extract_archive on an archive with a member that resolves outside the
\* destination ends with an error for its caller and has written nothing
\* outside the destination (runs cut short by a read or write error aside).
C15_TraversalAborts ==
    (x_pc = "idle" /\ x_result # "none" /\ x_total > 0 /\ x_error # "IOError"
        /\ HasOutsideMember(x_members)) =>
        /\ x_result = "raised"
        /\ \A path \in x_written : IsInside(path, BinPath)

----------------------------------------------------------------------------
(* Properties of GitHubGitProvider *)

GitReturned == g_pc = "idle" /\ g_result = "returned"
GitRaised == g_pc = "idle" /\ g_result \notin {"none", "returned"}

\* C21: a method wrapped by git_retry is invoked at most 3 times per call; a
\* call returns with the first invocation that succeeds, raises after 3
\* failed ones, and sleeps between two invocations only.
C21_RetryThreeTimes ==
    g_op \in RetriedOps =>
        /\ g_calls <= 3
        /\ g_pc = "invoke" => g_sleeps = g_calls
        /\ g_pc \in {"pull", "write", "push"} => g_sleeps = g_calls - 1
        /\ GitReturned => (g_calls >= 1 /\ g_sleeps = g_calls - 1)
        /\ GitRaised => (g_calls = 3 /\ g_sleeps = 2)

\* three invocations failed and the error reached the caller
C21_Witness ==
    /\ g_op \in RetriedOps /\ GitRaised
    /\ g_calls = 3 /\ g_sleeps = 2

\* C22: a save_all_changes whose files are identical to what the clone holds
\* creates no commit.
C22_NoChangeNoCommit ==
    [][(g_op = "save_all_changes" /\ WriteAndCommit /\ g_local' = g_local) =>
           (g_made' = g_made /\ g_ahead' = g_ahead)]_vars

\* C23: when save_all_changes has returned (and origin has not moved since),
\* origin got exactly one commit from the call and its tip holds the index
\* and the manifest of the update map.
C23_OneCommitWithAll ==
    (g_op = "save_all_changes" /\ GitReturned /\ g_rev = g_baseRev) =>
        /\ g_pushed = 1
        /\ g_remote.index = IndexFile(g_index)
        /\ g_manifests # {} => g_remote.manifest = ManifestFile10(ManifestArg)

\* C24: when get_index_content returns, the clone holds every push origin had
\* received when the call started, and the list returned is the content of
\* versions.json after the pull, [] when the file does not exist.
C24_PullBeforeRead ==
    (g_op = "get_index_content" /\ GitReturned) =>
        /\ g_baseRev >= g_startRev
        /\ ~g_local.index.exists => g_returned = <<>>
        /\ (g_ahead = 0 /\ g_rev = g_baseRev) =>
               g_returned = (IF g_remote.index.exists
                             THEN g_remote.index.content ELSE <<>>)

\* the list of another writer's push is returned
C24_Witness ==
    /\ g_op = "get_index_content" /\ GitReturned
    /\ g_startRev >= 1 /\ g_ahead = 0 /\ g_rev = g_baseRev
    /\ g_returned = <<"1.1", "1.0">>
    /\ g_remote.index = IndexFile(g_returned)

----------------------------------------------------------------------------
(* Properties of the progress values *)

\* ratios <<numerator, denominator>> with positive denominators
RatioLeq(a, b) == a[1] * b[2] <= b[1] * a[2]
NonDecreasing(p) == \A j, k \in 1..Len(p) : j < k => RatioLeq(p[j], p[k])

\* values of a call that ended well: at least one, each in (0,1],
\* non-decreasing, the last one 1.0 itself
GoodProgress(p) ==
    /\ p # <<>> /\ p[Len(p)] = <<1, 1>>
    /\ \A k \in 1..Len(p) : p[k][1] > 0 /\ p[k][1] <= p[k][2]
    /\ NonDecreasing(p)

\* C25: a create_backup or restore_backup that counted N files and succeeds
\* has reported non-decreasing values in (0,1] ending with 1.0, never more
\* values than files processed before its end, and for N = 0 the single value
\* 1.0 with nothing archived or extracted.
C25_BackupProgress ==
    /\ [](b_pc \in {"meta", "archive", "add", "rmtree", "extract"} =>
             Len(b_progress) <= b_i)
    /\ [][(CloseArchive(TRUE) \/ RestoreDone \/ RemoveBin) =>
             (b_pc' = "idle" =>
                 /\ GoodProgress(b_progress')
                 /\ b_total = 0 =>
                        /\ b_progress' = <<<<1, 1>>>>
                        /\ backups'[b_name].members = <<>>
                        /\ b_written' = {})]_vars

\* both files of bin were archived
C25_Witness ==
    /\ b_op = "create" /\ b_pc = "idle" /\ b_error = "none"
    /\ b_progress = <<<<1, 2>>, <<2, 2>>, <<1, 1>>>>
    /\ Len(backups[b_name].members) = 2

\* C26: every value extract_archive reports lies in [0,1] and the values are
\* non-decreasing, whatever the archive holds and the manifest lists.
C26_ExtractProgress ==
    /\ \A k \in 1..Len(x_progress) :
           x_progress[k][1] >= 0 /\ x_progress[k][1] <= x_progress[k][2]
    /\ NonDecreasing(x_progress)

\* C27: the attempt that succeeds reports nothing when the response had no
\* content-length, and ends its reports with 1.0 when it had one; the path is
\* returned in both cases.
C27_UnknownSizeSilent ==
    d_result = "path" =>
        IF d_known
        THEN d_progress # <<>> /\ d_progress[Len(d_progress)] = <<1, 1>>
        ELSE d_progress = <<>>

----------------------------------------------------------------------------
(* Properties of App._start_installation *)

\* C28: extraction starts only after verify_sha256 returned True; a flow whose
\* download does not have the expected hash goes no further than the
\* verification, and when it has ended no version marker was written and the
\* downloaded file is gone.
C28_NoInstallOnMismatch ==
    /\ i_extracting => i_verified = "true"
    /\ i_corrupt =>
          /\ i_pc \in {"verify", "done"}
          /\ ~i_extracting /\ ~i_marker
          /\ i_pc = "done" => ~d_tempFile

C28_Witness ==
    /\ i_pc = "done" /\ i_corrupt /\ d_result = "path"
    /\ ~d_tempFile /\ ~i_marker /\ ~i_extracting

----------------------------------------------------------------------------
(* Properties of the upload stage *)

\* the results collected so far for file f that carry a URL
UrlsFrom(f) == {<<d[1], Url(d[1], f, w_version)>> : d \in {x \in w_done : x[2] = f /\ x[3]}}

\* C29: with providers of pairwise different names the upload stage has one
\* task per provider and file, 2N in all, and the two dicts are determined by
\* the set of results collected, in whatever order the tasks completed.
C29_UploadOrderFree ==
    (w_pc = "uploading"
       /\ \A i, j \in 1..Len(w_providers) : w_providers[i] = w_providers[j] => i = j) =>
        LET launched == w_tasks \cup {<<d[1], d[2]>> : d \in w_done} IN
        /\ launched = Range(w_providers) \X {ArchiveFile, ManifestFile}
        /\ Cardinality(launched) = 2 * Len(w_providers)
        /\ Cardinality(w_tasks) + Cardinality(w_done) = 2 * Len(w_providers)
        /\ download_urls = UrlsFrom(ArchiveFile)
        /\ manifest_urls = {kv \in UrlsFrom(ManifestFile) : kv[1] # GitHubReleasesName}

C29_Witness ==
    /\ w_pc = "uploading" /\ w_tasks = {}
    /\ Len(w_providers) = 2 /\ Cardinality(w_done) = 4
    /\ download_urls # {} /\ manifest_urls # {}

----------------------------------------------------------------------------
(* Properties of the sidecar of a backup *)

\* C30: create_backup has written the sidecar, with the total file count, when
\* it opens the archive, so every archive create_backup has made or is making
\* has its sidecar next to it.
C30_SidecarFirst ==
    /\ (b_op = "create" /\ b_pc \in {"archive", "add"}) =>
          /\ backups[b_name].hasMeta
          /\ backups[b_name].total = b_total
    /\ \A n \in BackupNames \ {OldBackup} :
          backups[n].hasArch => backups[n].hasMeta

C30_Witness ==
    /\ b_op = "create" /\ b_pc = "add"
    /\ 0 < b_i /\ b_i < b_total
    /\ backups[b_name].hasArch /\ backups[b_name].hasMeta
    /\ Len(backups[b_name].members) = b_i

----------------------------------------------------------------------------
(* Properties of the backup names *)

\* C31: a create_backup call with a version other than "initial" starts on a
\* name under which neither an archive nor a sidecar is stored, so it adds a
\* backup and replaces none.
C31_NewBackupEachCall ==
    [][(b_pc = "idle" /\ b_op' = "create" /\ b_pc' = "meta" /\ b_name' # InitialBackup)
          => ~backups[b_name'].hasArch /\ ~backups[b_name'].hasMeta]_vars

----------------------------------------------------------------------------
(* Properties of the download's progress values and file *)

\* C32: within one call no value passed to the progress callback is below the
\* value passed before it, over all attempts and providers.
C32_ProgressNeverFalls == d_decreased = FALSE

\* C37: the file whose path is returned holds the chunks of the attempt that
\* succeeded, in order, and nothing an earlier attempt wrote.
C37_OnlyLastAttemptsBytes ==
    d_result = "path" =>
        d_file = [c \in 1..BodyChunks |-> <<Len(d_tries), c>>]

C37_Witness ==
    /\ d_result = "path" /\ Len(d_tries) >= 2
    /\ d_decreased
    /\ d_file[1] = <<Len(d_tries), 1>>

----------------------------------------------------------------------------
(* Properties of a successful installation *)

\* C33: a flow whose backup succeeded, whose download returned a path and
\* whose archive has the hash of the manifest has, when it ends, extracted the
\* archive and written the version marker.
C33_GoodDownloadInstalls ==
    (i_pc = "done" /\ b_op = "create" /\ b_error = "none"
        /\ d_result = "path" /\ ~i_corrupt) =>
        /\ i_verified = "true"
        /\ i_extracting /\ i_marker
        /\ i_error = "none"

----------------------------------------------------------------------------
(* Properties of the launcher's worker threads *)

\* C34: at most one worker that modifies the install directory runs at any
\* time, install workers and restore workers counted together.
C34_OneWorkerInFlight == u_installing + Len(u_restoring) <= 1

----------------------------------------------------------------------------
(* Properties of the Manage Releases tab *)

\* C35: the index handed to save_all_changes has at most one entry flagged
\* latest, and no profiler entry of it is flagged latest.
C35_SavedLatestUnique ==
    m_pc = "saved" =>
        /\ AtMostOneLatest(m_saved)
        /\ \A n \in 1..Len(m_saved) : m_saved[n].profiler => ~HasLatest(m_saved[n])

\* C39: saving without an edit hands save_all_changes the entries that were
\* read, in their order, and an empty manifest update map.
C39_SaveWithoutEditIsIdentity ==
    (m_pc = "saved" /\ ~m_edited) => (m_saved = m_index /\ m_updates = {})

----------------------------------------------------------------------------
(* Properties of the backup root between operations *)

\* backup.py 84-94: the names of the archives in the backup root
GetAvailableBackups == {n \in BackupNames : backups[n].hasArch}

\* C36: while no BackupManager operation runs, every archive listed by
\* get_available_backups has its sidecar, whatever create_backup and
\* delete_backup calls came before and however they ended; the archive an
\* earlier session left without sidecar is the one exception.
C36_ListedBackupsHaveSidecar ==
    b_pc = "idle" =>
        \A n \in GetAvailableBackups :
            \/ backups[n].hasMeta
            \/ n = OldBackup /\ backups[n] = Orphan(<<FileA>>)

C36_Witness ==
    /\ b_pc = "idle" /\ b_op = "delete" /\ b_error = "OSError"
    /\ \E n \in GetAvailableBackups \ {OldBackup} : backups[n].hasMeta

----------------------------------------------------------------------------
(* Properties of two runs that update the index *)

\* C38: when update_index_content returns after another run has pushed its
\* index since this clone last pulled, the index on origin holds the entries
\* of the list this run handed over.
C38_NoEntryLost ==
    [][(g_pc = "push" /\ g_op = "update_index_content" /\ g_rev # g_baseRev
          /\ g_result' = "returned")
          => \A v \in Range(g_index) : v \in Range(g_remote'.index.content)]_vars

----------------------------------------------------------------------------
(* Properties of concurrent upload_asset calls *)

\* C40: the two calls of one run create the tag and the release at most once
\* each, and neither call fails.
C40_ConcurrentUploadsSucceed ==
    /\ p_made.tag <= 1 /\ p_made.release <= 1
    /\ \A t \in UploadCalls : p_err[t] = "none"

====
